---- MODULE Spec2Model ----
(***************************************************************************)
(* A model of the streaming authenticated-encryption codec of piper        *)
(* (common/src/crypto): Header, EncryptedWriter, EncryptedReader and the   *)
(* seek adapter, together with the harness of the crate's own tests        *)
(* (encrypt_all, decrypt_all, block swapping and splicing).                *)
(*                                                                         *)
(* Bytes.  A byte string is kept run-length encoded, as a sequence of runs  *)
(* <<kind, a, e, m>>, e being the offset at which the run ends (the next   *)
(* run starts there, the first starts at 0):                               *)
(*   kind "b": copies of the byte a;                                       *)
(*   kind "d": the bytes DataByte(a), DataByte(a + 1), ... of the test     *)
(*             data;                                                       *)
(*   m: the keystreams XOR-ed onto the run.  ChaCha20 is a XOR stream      *)
(*      cipher: encrypting under (key, nonce) adds <<"ks", key, nonce, o>> *)
(*      to m, o being the keystream offset of the run's first byte, and    *)
(*      applying the same keystream a second time removes it again.  A run *)
(*      with m = {} is plain.                                              *)
(* Adjacent runs that continue each other are merged, so equal byte        *)
(* strings have equal encodings.  Argon2 and Poly1305 are ideal: a key is  *)
(* the pair it was derived from, a tag the triple it was computed from.    *)
(***************************************************************************)
EXTENDS Integers, Sequences, FiniteSets, TLC

\* ------------------------------------------------------------ constants

HEADER_SIZE == 16

POLY_TAG_SIZE == 16

PAYLOAD_SIZE == 512

BLOCK_SIZE == HEADER_SIZE + PAYLOAD_SIZE + POLY_TAG_SIZE

VERSION_0 == 0

VARIANT_ARGON_CHACHA20_POLY == 1

\* b"544b", the bytes of COUNTER_HINT in big-endian order
COUNTER_HINT == <<53, 52, 52, 98>>

MAGIC ==
  << 35, 116, 111, 99, 35, 115, 116, 114, 101, 97, 109, 95, 95, 95, 95, 95,
     10, 107, 101, 121, 61, 97, 114, 103, 111, 110, 50, 105, 118, 49, 51, 40,
     116, 61, 51, 44, 109, 61, 54, 53, 53, 51, 54, 44, 112, 61, 49, 44,
     115, 97, 108, 116, 61, 83, 65, 76, 84, 58, 49, 48, 124, 39, 35, 116,
     111, 99, 39, 44, 80, 76, 65, 73, 78, 41, 10, 110, 111, 110, 99, 101,
     61, 83, 65, 76, 84, 91, 48, 58, 56, 93, 124, 67, 79, 85, 78, 84,
     69, 82, 10, 109, 97, 103, 105, 99, 61, 105, 102, 32, 67, 79, 85, 78,
     84, 69, 82, 60, 49, 54, 32, 39, 35, 116, 111, 99, 35, 115, 116, 114,
     101, 97, 109, 95, 95, 95, 95, 95, 39, 91, 67, 79, 85, 78, 84, 69,
     82, 93, 32, 101, 108, 115, 101, 32, 63, 10, 118, 61, 49, 10, 101, 110,
     99, 44, 116, 97, 103, 61, 99, 104, 97, 99, 104, 97, 50, 48, 45, 112,
     111, 108, 121, 49, 51, 48, 53, 40, 110, 111, 110, 99, 101, 44, 107, 101,
     121, 41, 10, 99, 61, 67, 79, 85, 78, 84, 69, 82, 58, 52, 98, 101,
     94, 39, 53, 52, 52, 98, 39, 10, 109, 97, 103, 105, 99, 58, 49, 124,
     118, 58, 49, 124, 99, 58, 52, 124, 83, 65, 76, 84, 58, 49, 48, 124,
     101, 110, 99, 58, 53, 49, 50, 124, 116, 97, 103, 58, 49, 54, 10, 10 >>

\* ------------------------------------------------------------ byte strings

Min(a, b) == IF a < b THEN a ELSE b

\* the test data: byte i of the plaintext (non-zero, position dependent)
DataByte(i) == (i % 251) + 1

ShiftMask(m, k) == {<<e[1], e[2], e[3], e[4] + k>> : e \in m}

BLen(s) == IF s = <<>> THEN 0 ELSE s[Len(s)][3]

\* the offset at which run k of s starts
RunStart(s, k) == IF k = 1 THEN 0 ELSE s[k - 1][3]

\* the index of the run of s that holds offset i
RunAt(s, i) == Cardinality({k \in 1..Len(s) : s[k][3] <= i}) + 1

\* s without its first d bytes
BDrop(s, d) ==
  IF d <= 0 THEN s
  ELSE IF d >= BLen(s) THEN <<>>
  ELSE LET f == RunAt(s, d)
       IN  [i \in 1..(Len(s) - f + 1) |->
              LET x == s[f + i - 1]
                  skip == IF i = 1 THEN d - RunStart(s, f) ELSE 0
              IN  <<x[1], IF x[1] = "d" THEN x[2] + skip ELSE x[2], x[3] - d,
                    ShiftMask(x[4], skip)>>]

\* the first t bytes of s
BTake(s, t) ==
  IF t <= 0 THEN <<>>
  ELSE IF t >= BLen(s) THEN s
  ELSE LET l == RunAt(s, t - 1)
       IN  [i \in 1..l |-> IF i < l THEN s[i] ELSE <<s[l][1], s[l][2], t, s[l][4]>>]

\* s[from .. to), offsets counted from 0
BSlice(s, from, to) == BTake(BDrop(s, from), to - from)

\* a followed by b; the run that ends a and the run that starts b become one when
\* the second continues the first
BCat(a, b) ==
  IF a = <<>> THEN b
  ELSE IF b = <<>> THEN a
  ELSE LET n == BLen(a)
           la == a[Len(a)]
           ll == n - RunStart(a, Len(a))
           sb == [i \in 1..Len(b) |-> <<b[i][1], b[i][2], b[i][3] + n, b[i][4]>>]
           joins == /\ la[1] = b[1][1]
                    /\ b[1][2] = (IF la[1] = "d" THEN la[2] + ll ELSE la[2])
                    /\ b[1][4] = ShiftMask(la[4], ll)
       IN  IF joins
             THEN SubSeq(a, 1, Len(a) - 1) \o << <<la[1], la[2], sb[1][3], la[4]>> >>
                    \o Tail(sb)
             ELSE a \o sb

\* n bytes of value v
BConst(v, n) == IF n <= 0 THEN <<>> ELSE << <<"b", v, n, {}>> >>

\* n bytes of the test data from offset start
BData(start, n) == IF n <= 0 THEN <<>> ELSE << <<"d", start, n, {}>> >>

\* the bytes of a sequence q of byte values
BLit(q) ==
  LET starts == {i \in 1..Len(q) : i = 1 \/ q[i] # q[i - 1]}
      nth(k) == CHOOSE i \in starts : Cardinality({j \in starts : j <= i}) = k
      c == Cardinality(starts)
  IN  [k \in 1..c |-> <<"b", q[nth(k)], IF k = c THEN Len(q) ELSE nth(k + 1) - 1, {}>>]

\* the value stored at offset i of s (what a plain byte reads as)
BAt(s, i) ==
  LET k == RunAt(s, i)
  IN  IF s[k][1] = "d" THEN DataByte(s[k][2] + i - RunStart(s, k)) ELSE s[k][2]

\* the byte values of s[from .. to)
BVals(s, from, to) == [i \in 1..(to - from) |-> BAt(s, from + i - 1)]

\* s with the keystream ks = <<"ks", key, nonce>> XOR-ed on, byte 0 of s meeting
\* byte o of the keystream
BXor(s, ks, o) ==
  [k \in 1..Len(s) |->
     LET e == <<ks[1], ks[2], ks[3], o + RunStart(s, k)>>
     IN  <<s[k][1], s[k][2], s[k][3],
           IF e \in s[k][4] THEN s[k][4] \ {e} ELSE s[k][4] \cup {e}>>]

\* bit p (a power of two) of a XOR b, in place
XorBit(a, b, p) == p * (((a \div p) + (b \div p)) % 2)

Xor8(a, b) ==
  XorBit(a, b, 1) + XorBit(a, b, 2) + XorBit(a, b, 4) + XorBit(a, b, 8)
    + XorBit(a, b, 16) + XorBit(a, b, 32) + XorBit(a, b, 64) + XorBit(a, b, 128)

\* A u32 is kept as the integer of the same 32 bits in two's complement (the
\* integers of the checker are 32 bits wide): a value v < 2^31 is v, a value
\* v >= 2^31 is v - 2^32, so u32::MAX is -1.  \div rounds down and % is never
\* negative, so the bytes come out the same for both halves of the range.

\* u32::to_be_bytes and u32::from_be_bytes
ToBeBytes(x) ==
  << (x \div 16777216) % 256, (x \div 65536) % 256, (x \div 256) % 256, x % 256 >>

FromBeBytes(b) ==
  (((IF b[1] >= 128 THEN b[1] - 256 ELSE b[1]) * 256 + b[2]) * 256 + b[3]) * 256 + b[4]

\* x = u32::MAX
IsU32Max(x) == x = -1

\* x >= y for a u32 x and a small constant y >= 0
U32Ge(x, y) == x < 0 \/ x >= y

\* x as i64 lies below 2^31, where x as i64 = x
U32Small(x) == x >= 0

\* ------------------------------------------------------------ header

MkHeader(counter, salt) ==
  [magic |-> 0, version |-> VERSION_0, variant |-> VARIANT_ARGON_CHACHA20_POLY,
   blockcounter |-> counter, salt |-> salt]

\* impl From<Header> for [u8; HEADER_SIZE]
HeaderToBytes(h) ==
  LET cb == ToBeBytes(h.blockcounter)
  IN  << MAGIC[(h.blockcounter % 256) + 1],
         h.version * 16 + h.variant,
         Xor8(cb[1], COUNTER_HINT[1]), Xor8(cb[2], COUNTER_HINT[2]),
         Xor8(cb[3], COUNTER_HINT[3]), Xor8(cb[4], COUNTER_HINT[4]) >>
      \o h.salt

\* a parser that takes the counter field as it is on the wire
HeaderFromBytesPlain(d) ==
  [magic |-> d[1],
   version |-> (d[2] \div 16) % 16,
   variant |-> d[2] % 16,
   blockcounter |-> FromBeBytes(<<d[3], d[4], d[5], d[6]>>),
   salt |-> SubSeq(d, 7, HEADER_SIZE)]

\* impl From<[u8; HEADER_SIZE]> for Header
HeaderFromBytes(d) ==
  [magic |-> d[1],
   version |-> (d[2] \div 16) % 16,
   variant |-> d[2] % 16,
   blockcounter |-> FromBeBytes(<< Xor8(d[3], COUNTER_HINT[1]),
                                   Xor8(d[4], COUNTER_HINT[2]),
                                   Xor8(d[5], COUNTER_HINT[3]),
                                   Xor8(d[6], COUNTER_HINT[4]) >>),
   salt |-> SubSeq(d, 7, HEADER_SIZE)]

\* a check that holds every counter to its magic byte
magic_okStrict(h) == h.magic = MAGIC[(h.blockcounter % 256) + 1]

magic_ok(h) ==
  U32Ge(h.blockcounter, 16) \/ h.magic = MAGIC[(h.blockcounter % 256) + 1]

\* ------------------------------------------------------------ primitives

\* generate_key: Argon2i over (passphrase, salt || "#toc"), ideal
generate_key(passphrase, h) == <<passphrase, h.salt>>

payload_nonce(h) == <<SubSeq(h.salt, 1, 8), h.blockcounter>>

KeyStream(key, nonce) == <<"ks", key, nonce>>

\* ChaCha20 applied in place to a payload (encryption and decryption alike)
ApplyKeyStream(key, nonce, payload) == BXor(payload, KeyStream(key, nonce), 0)

\* the detached Poly1305 tag of a ciphertext: POLY_TAG_SIZE bytes
PolyTag(key, nonce, ct) ==
  << <<"b", 0, POLY_TAG_SIZE, {<<"mac", key, <<nonce, ct>>, 0>>}>> >>

\* ------------------------------------------------------------ bounds and inputs

\* writers opened one after the other over the same sink (a concatenation)
MaxSessions == 3

\* blocks handed to the sink
MaxBlocks == 4

\* write calls
MaxWrites == 4

\* write_all calls the sink fails
MaxSinkErrors == 1

\* seek calls
MaxSeeks == 2

\* readers opened one after the other over the same ciphertext
MaxReaders == 2

\* the passphrase of the writers, and the passphrases a reader is opened with
WriterPassphrase == 1

Passphrases == {1, 2}

\* the salt the RNG hands to the i-th writer: ten non-zero bytes, fresh per writer
SaltOf(i) == [j \in 1..10 |-> 16 * i + j]

\* lengths of the buffers handed to write: a whole block, and less
WriteLens == {1, 5, 500, 512}

\* the same with more lengths under a block, for a single writer
TailLens == WriteLens \cup {10, 20}

\* lengths of the buffers handed to read
ReadLens == {300, 512}

\* first counters handed to new_from_salt_and_key: u32::MAX - 2, u32::MAX - 1,
\* u32::MAX, and 2^31 - 2
StartCounters == {-3, -2, -1, 2147483646}

\* first counters of the writers whose headers are checked: below 16, from 16 on,
\* the end of the magic table, and u32::MAX - 1
HeaderCounters == {0, 14, 16, 255, -2}

\* magic bytes written over a header: table[0], table[1], table[15], and 0
MagicBytes == {35, 116, 95, 0}

\* version/variant bytes written over a header: (0, 1), (0, 0), (1, 1), (0, 2)
VersionBytes == {1, 0, 17, 2}

\* lengths of the buffers handed to these writers
HeaderLens == {5, 512}

\* plaintext offsets handed to seek(SeekFrom::Start(n)) between relative seeks
RelSeekOffsets == {700}

\* offsets handed to seek(SeekFrom::Current(d)) and seek(SeekFrom::End(d))
SeekDeltas == {-600, -512, -5, 0, 512}

\* the most bytes a source hands over per call of read
ShortCaps == {1, 16, 543, 544}

\* the bytes of its last block a truncated source still has
TruncTails == {1, 16, 543}

\* lengths of the buffers handed to the writers of a concatenation
ConcatLens == {5, 512}

\* counters of the headers converted: the ends of the range (u32::MAX is -1), the
\* ends of each byte, 2^31 - 1 and 2^31, and COUNTER_HINT itself
RoundTripCounters ==
  {0, 1, 15, 16, 255, 256, 65535, 65536, 16777215, 16777216, 892613730,
   2147483647, -2147483647 - 1, -2, -1}

\* their salts: the salt of a writer, ten bytes 0, ten bytes 255
RoundTripSalts == {SaltOf(1), [j \in 1..10 |-> 0], [j \in 1..10 |-> 255]}

\* the widths a build gives to the keys of stream_state: the salt, or [u8;8]
StreamKeyLens == {8, 10}

\* the salt of the i-th of writers whose salts differ in the last two bytes only
TwinSalt(i) == [j \in 1..10 |-> IF j <= 8 THEN 16 + j ELSE 16 * i + j]

\* prefixes of the TarPasswords drawn
Prefixes == {0, 5, 42, 9999}

\* word indices of the TarPasswords drawn
WordIndices == {0, 2, 5, 7}

\* edits made to the text of a password before it is parsed
MaxEdits == 2

\* write calls a producer makes on a PipeWriter
MaxPipeWrites == 66

\* the length of the buffer handed to the k-th write call: 0, 1 or 2 bytes in turn
ChunkLen(k) == k % 3

\* lengths of the buffers handed to PipeReader::read
PipeReadLens == {1, 3}

\* the ciphertexts an attacker makes of the blocks of a ciphertext: up to three of
\* its first four blocks in any order, repeats included
Layouts == UNION {[1..n -> 0..3] : n \in 1..3}

\* block offsets handed to seek over such a ciphertext
OrderOffsets == {0, 512}

\* plaintext offsets handed to seek
SeekOffsets == {0, 5, 512, 517, 1024, 1536}

\* plaintext lengths of the independent ciphertext a block is spliced in from
ForeignLens == {5, 20, 512}

\* bytes in the body of an upload request
MaxBody == 2

\* the upload requests made for one id, and the body of each: its bytes are
\* named by the request and their place in the body
Uploaders == {1, 2}

Body(u) == [i \in 1..MaxBody |-> 10 * u + i]

\* lengths of the buffers the response body is read into
DlReadLens == {1, 2}

\* ------------------------------------------------------------ state

VARIABLES
  w,         \* the EncryptedWriter (st: "none" before the first, "open", "dropped", "panicked")
  sink,      \* the bytes the inner sink holds
  handed,    \* history: one record per block handed to inner.write_all
  plain,     \* history: the bytes write has copied into the writer, all writers
  sessions,  \* history: one record per writer opened
  wres,      \* history: the last writer operation and its result
  cnt,       \* history: the number of failed write_all calls, writes, seeks, readers
  source,    \* the bytes of the reader's inner source
  tamper,    \* history: what was done to the ciphertext before it was read
  r,         \* the EncryptedReader (st: "none", "open", "panicked")
  rh,        \* history of the reader: bytes delivered since it was positioned, results
  pipe,      \* the pipe of create_pipe: the channel, the PipeWriter, the PipeReader
  pw,        \* a TarPassword on its way through Display and parse
  hd,        \* a Header on its way through its two conversions
  srv        \* the server's store for one id, and the requests at work on it

vars == <<w, sink, handed, plain, sessions, wres, cnt, source, tamper, r, rh, pipe, pw, hd, srv>>

wvars == <<w, sink, handed, plain, sessions, wres>>

rvars == <<source, tamper, r, rh>>

\* the units beside the codec, which no call of the codec touches
tvars == <<pipe, pw, hd, srv>>

\* before create_pipe, before a TarPassword is drawn, before a Header is made
NoPipe == [st |-> "none"]

NoPassword == [st |-> "none"]

NoHeader == [st |-> "none"]

\* no meta file for the id
NoMeta == [exists |-> FALSE, owner |-> 0, finished |-> FALSE]

\* an upload request before it is handled
NoUpload == [pc |-> "idle", fd |-> 0, pos |-> 0, res |-> "none"]

\* a download request before it is handled
NoDownload == [pc |-> "idle", fd |-> 0, pos |-> 0, iter |-> 0, out |-> <<>>,
               blocking |-> FALSE, end |-> "none"]

\* the store before any request: no meta file and no data file for the id.
\* inodes are the data files ever created, path is the one the name
\* "<id>.tar.age" refers to (0: none); an open File keeps its inode.
NoRequests == [meta |-> NoMeta, path |-> 0, inodes |-> <<>>,
               up |-> [u \in Uploaders |-> NoUpload], dl |-> NoDownload]

NoSalt == <<>>

None == -1

NoWriter ==
  [st |-> "none", key |-> <<0, NoSalt>>, hdr |-> MkHeader(0, NoSalt), pos |-> 0,
   chunk |-> <<>>]

NoReader ==
  [st |-> "none", inner_pos |-> 0, inner_cap |-> BLOCK_SIZE, passphrase |-> 0, stream_state |-> <<>>,
   last_stream |-> NoSalt, current_chunk_position |-> PAYLOAD_SIZE,
   current_chunk |-> <<>>, global_position |-> 0]

\* the history of a reader: out, the bytes delivered since it was positioned at
\* base; res, the result of its last call; err, its first error, met with errout
\* bytes delivered; eof, whether a read into a non-empty buffer returned 0; whole,
\* whether every call so far was a seek into the whole blocks of the plaintext or
\* a read, after a seek, that stayed within them; prev, the passphrase of the reader
\* opened before it (0: none); seek, the kind of the last seek and, for a relative
\* one, its result
NoHistory ==
  [out |-> <<>>, base |-> 0, err |-> "none", eof |-> FALSE, res |-> "none",
   errout |-> 0, whole |-> TRUE, prev |-> 0, seek |-> <<"none">>]

\* the length of the plaintext without its last, partial block
WholeBlocks(len) == len - (len % PAYLOAD_SIZE)

\* ------------------------------------------------------------ EncryptedWriter

\* EncryptedWriter::new
NewWriter(passphrase, salt) ==
  LET h == MkHeader(0, salt)
  IN  [st |-> "open", key |-> generate_key(passphrase, h), hdr |-> h, pos |-> 0,
       chunk |-> BConst(0, BLOCK_SIZE)]

\* EncryptedWriter::new_from_salt_and_key
NewWriterFrom(salt, key, blockcounter) ==
  [st |-> "open", key |-> key, hdr |-> MkHeader(blockcounter, salt), pos |-> 0,
   chunk |-> BConst(0, BLOCK_SIZE)]

\* write_chunk, the loop "for i in current_chunk_position..PAYLOAD_SIZE": it indexes
\* the whole chunk, header included, not the payload that starts at HEADER_SIZE
PadChunk(chunk, pos) ==
  IF pos >= PAYLOAD_SIZE THEN chunk
  ELSE BCat(BCat(BTake(chunk, pos), BConst(0, PAYLOAD_SIZE - pos)),
            BDrop(chunk, PAYLOAD_SIZE))

\* encrypt_in_place_detached and the copy of the tag behind the payload
SealPayload(key, nonce, header, ct) ==
  BCat(BCat(header, ct), PolyTag(key, nonce, ct))

\* write_chunk from the padded chunk on: the block it hands to the sink
SealPadded(key, nonce, chunk) ==
  SealPayload(key, nonce, BTake(chunk, HEADER_SIZE),
              ApplyKeyStream(key, nonce,
                             BSlice(chunk, HEADER_SIZE, HEADER_SIZE + PAYLOAD_SIZE)))

\* write_chunk up to the call of inner.write_all: the block it hands to the sink
SealChunk(wr) ==
  SealPadded(wr.key, payload_nonce(wr.hdr),
             PadChunk(BCat(BLit(HeaderToBytes(wr.hdr)), BDrop(wr.chunk, HEADER_SIZE)),
                      wr.pos))

\* blockcounter.checked_add(1) when it is Some: the counter after a block (2^31 - 1
\* is followed by 2^31, kept as -2^31); it is None exactly when IsU32Max(c)
NextCounter(c) == IF c = 2147483647 THEN -2147483647 - 1 ELSE c + 1

\* write_chunk from inner.write_all on, blk being the sealed block: fail says
\* whether write_all returns an error (a failing sink keeps nothing of the block)
WriteAll(wr, sk, fail, blk) ==
  LET w1 == [wr EXCEPT !.chunk = blk]
      nc == NextCounter(wr.hdr.blockcounter)
  IN  IF fail THEN [w |-> w1, sink |-> sk, ok |-> FALSE, blk |-> blk]
      ELSE IF IsU32Max(wr.hdr.blockcounter)
        THEN [w |-> w1, sink |-> BCat(sk, blk), ok |-> FALSE, blk |-> blk]
        ELSE [w |-> [w1 EXCEPT !.hdr.blockcounter = nc], sink |-> BCat(sk, blk),
              ok |-> TRUE, blk |-> blk]

\* write_chunk: the writer and the sink afterwards, and whether it returned Ok
write_chunk(wr, sk, fail) == WriteAll(wr, sk, fail, SealChunk(wr))

\* <EncryptedWriter as Write>::write: the writer after copying buf, before write_chunk
CopyIn(wr, buf) ==
  LET left == PAYLOAD_SIZE - wr.pos
      to_write == Min(left, BLen(buf))
  IN  [wr EXCEPT
         !.chunk = BCat(BCat(BTake(wr.chunk, HEADER_SIZE + wr.pos), BTake(buf, to_write)),
                        BDrop(wr.chunk, HEADER_SIZE + wr.pos + to_write)),
         !.pos = wr.pos + to_write]

\* a write that leaves current_chunk_position where it is after a block went out
AfterChunkStay(pos) == pos

\* <EncryptedWriter as Write>::write: the position after a block went out
AfterChunk(pos) == 0

\* history of a block handed to inner.write_all: ok, whether write_all took it;
\* done, whether write_chunk returned Ok
HandedRec(wr, blk, ok, done) ==
  [salt |-> wr.hdr.salt, counter |-> wr.hdr.blockcounter, ok |-> ok, done |-> done,
   blk |-> blk]

Init ==
  /\ w = NoWriter
  /\ sink = <<>>
  /\ handed = <<>>
  /\ plain = <<>>
  /\ sessions = <<>>
  /\ wres = <<"none", "ok">>
  /\ cnt = [sinkErrs |-> 0, writes |-> 0, seeks |-> 0, readers |-> 0]
  /\ source = <<>>
  /\ tamper = <<"none">>
  /\ r = NoReader
  /\ rh = NoHistory
  /\ pipe = NoPipe
  /\ pw = NoPassword
  /\ hd = NoHeader
  /\ srv = NoRequests

Writing == r.st = "none" /\ tamper = <<"none">>

\* EncryptedWriter::new over the same sink, after the previous writer is gone
WriterNew(p, maxSessions) ==
  /\ Writing
  /\ w.st \in {"none", "dropped"}
  /\ Len(sessions) < maxSessions
  /\ w' = NewWriter(p, SaltOf(Len(sessions) + 1))
  /\ sessions' = Append(sessions, [pass |-> p, salt |-> SaltOf(Len(sessions) + 1),
                                   first |-> BLen(plain), len |-> 0, errs |-> 0,
                                   flushed |-> {}])
  /\ wres' = <<"new", "ok">>
  /\ UNCHANGED <<sink, handed, plain, cnt>>
  /\ UNCHANGED rvars
  /\ UNCHANGED tvars

\* EncryptedWriter::new when the RNG hands out salts that agree in eight bytes
WriterNewTwin(p, maxSessions) ==
  /\ Writing
  /\ w.st \in {"none", "dropped"}
  /\ Len(sessions) < maxSessions
  /\ w' = NewWriter(p, TwinSalt(Len(sessions) + 1))
  /\ sessions' = Append(sessions, [pass |-> p, salt |-> TwinSalt(Len(sessions) + 1),
                                   first |-> BLen(plain), len |-> 0, errs |-> 0,
                                   flushed |-> {}])
  /\ wres' = <<"new", "ok">>
  /\ UNCHANGED <<sink, handed, plain, cnt>>
  /\ UNCHANGED rvars
  /\ UNCHANGED tvars

\* EncryptedWriter::new_from_salt_and_key with the key of the passphrase p and a
\* first counter c
WriterFrom(p, c) ==
  /\ Writing
  /\ w.st = "none"
  /\ w' = NewWriterFrom(SaltOf(1), generate_key(p, MkHeader(0, SaltOf(1))), c)
  /\ sessions' = Append(sessions, [pass |-> p, salt |-> SaltOf(1),
                                   first |-> BLen(plain), len |-> 0, errs |-> 0,
                                   flushed |-> {}])
  /\ wres' = <<"new", "ok">>
  /\ UNCHANGED <<sink, handed, plain, cnt>>
  /\ UNCHANGED rvars
  /\ UNCHANGED tvars

\* write, the chunk being full: c is what write_chunk made of the writer w1
WriteFull(w1, c, to_write, fail) ==
  /\ w' = IF c.ok THEN [c.w EXCEPT !.pos = AfterChunk(c.w.pos)] ELSE c.w
  /\ sink' = c.sink
  /\ handed' = Append(handed, HandedRec(w1, c.blk, ~fail, c.ok))
  /\ wres' = <<"write", IF c.ok THEN "ok" ELSE "err">>
  /\ cnt' = [cnt EXCEPT !.writes = @ + 1, !.sinkErrs = IF fail THEN @ + 1 ELSE @]
  /\ sessions' = [sessions EXCEPT ![Len(sessions)].len = @ + to_write,
                    ![Len(sessions)].errs = IF c.ok THEN @ ELSE @ + 1]

\* write after the copy into the chunk: w1 is the writer with to_write bytes more
WriteCopied(w1, to_write, fail) ==
  /\ plain' = BCat(plain, BData(BLen(plain), to_write))
  /\ IF w1.pos = PAYLOAD_SIZE
       THEN WriteFull(w1, write_chunk(w1, sink, fail), to_write, fail)
       ELSE /\ fail = FALSE
            /\ w' = w1
            /\ wres' = <<"write", "ok">>
            /\ cnt' = [cnt EXCEPT !.writes = @ + 1]
            /\ sessions' = [sessions EXCEPT ![Len(sessions)].len = @ + to_write]
            /\ UNCHANGED <<sink, handed>>

\* <EncryptedWriter as Write>::write(buf), buf = the next n bytes of the data
Write(n, fail) ==
  /\ Writing
  /\ w.st = "open"
  /\ Len(handed) < MaxBlocks
  /\ cnt.writes < MaxWrites
  /\ WriteCopied(CopyIn(w, BData(BLen(plain), n)), Min(PAYLOAD_SIZE - w.pos, n), fail)
  /\ UNCHANGED rvars
  /\ UNCHANGED tvars

\* a flush that pads and emits the bytes buffered so far
flushEmits(wr, sk) ==
  IF wr.pos = 0 THEN [w |-> wr, sink |-> sk]
  ELSE [w |-> [write_chunk(wr, sk, FALSE).w EXCEPT !.pos = 0],
        sink |-> write_chunk(wr, sk, FALSE).sink]

\* <EncryptedWriter as Write>::flush: self.inner.flush(), which leaves the bytes of
\* the sink as they are, and nothing of the writer
flush(wr, sk) == [w |-> wr, sink |-> sk]

\* a call of flush; the history keeps the length of the plaintext it came at
Flush ==
  /\ Writing
  /\ w.st = "open"
  /\ w' = flush(w, sink).w
  /\ sink' = flush(w, sink).sink
  /\ wres' = <<"flush", "ok">>
  /\ sessions' = [sessions EXCEPT ![Len(sessions)].flushed = @ \cup {sessions[Len(sessions)].len}]
  /\ UNCHANGED <<handed, plain, cnt>>
  /\ UNCHANGED rvars
  /\ UNCHANGED tvars

\* drop with bytes buffered: c is what write_chunk made of the writer
DropChunk(c, fail) ==
  /\ w' = [c.w EXCEPT !.st = IF c.ok THEN "dropped" ELSE "panicked"]
  /\ sink' = c.sink
  /\ handed' = Append(handed, HandedRec(w, c.blk, ~fail, c.ok))
  /\ wres' = <<"drop", IF c.ok THEN "ok" ELSE "panic">>
  /\ cnt' = [cnt EXCEPT !.sinkErrs = IF fail THEN @ + 1 ELSE @]
  /\ sessions' = [sessions EXCEPT ![Len(sessions)].errs = IF c.ok THEN @ ELSE @ + 1]

\* Drop for EncryptedWriter: write_chunk().unwrap() when bytes are buffered
Drop(fail) ==
  /\ Writing
  /\ w.st = "open"
  /\ IF w.pos > 0
       THEN DropChunk(write_chunk(w, sink, fail), fail)
       ELSE /\ fail = FALSE
            /\ w' = [w EXCEPT !.st = "dropped"]
            /\ wres' = <<"drop", "ok">>
            /\ UNCHANGED <<sink, handed, cnt, sessions>>
  /\ UNCHANGED plain
  /\ UNCHANGED rvars
  /\ UNCHANGED tvars

SinkMayFail == IF cnt.sinkErrs < MaxSinkErrors THEN {FALSE, TRUE} ELSE {FALSE}

\* ------------------------------------------------------------ Header

\* Header { version: 0, variant: 1, blockcounter, salt } is made
HeaderMake(c, salt) ==
  /\ hd.st = "none"
  /\ hd' = [st |-> "header", h |-> MkHeader(c, salt)]
  /\ UNCHANGED <<w, sink, handed, plain, sessions, wres, cnt, source, tamper, r, rh, pipe, pw, srv>>

\* header.to_bytes()
HeaderSerialize ==
  /\ hd.st = "header"
  /\ hd' = [st |-> "bytes", h |-> hd.h, bytes |-> HeaderToBytes(hd.h)]
  /\ UNCHANGED <<w, sink, handed, plain, sessions, wres, cnt, source, tamper, r, rh, pipe, pw, srv>>

\* Header::from(bytes)
HeaderParse ==
  /\ hd.st = "bytes"
  /\ hd' = [st |-> "parsed", h |-> hd.h, bytes |-> hd.bytes,
            parsed |-> HeaderFromBytes(hd.bytes)]
  /\ UNCHANGED <<w, sink, handed, plain, sessions, wres, cnt, source, tamper, r, rh, pipe, pw, srv>>

\* ------------------------------------------------------------ pipe

\* the bound of sync_channel
ChannelBound == 64

\* create_pipe: an empty channel, a PipeWriter that has written 0 bytes and a
\* PipeReader with an empty buffer. A chunk is the sequence of its bytes, and a
\* byte handed to write is named by its place among the bytes the producer handed
\* over with success (acc counts them). tx and rx are the positions of the two
\* threads: "idle" outside a call, "sending" inside sender.send, "receiving"
\* inside receiver.recv, "dropped" once dropped. got counts the bytes read
\* returned and rbuf is what the last read put into its buffer.
create_pipe ==
  /\ pipe.st = "none"
  /\ pipe' = [st |-> "open", queue |-> <<>>, buffer |-> <<>>, written |-> 0,
              tx |-> "idle", rx |-> "idle", calls |-> 0, stalls |-> 0,
              pending |-> <<>>, want |-> 0, wret |-> "none", rret |-> -1,
              acc |-> 0, got |-> 0, rbuf |-> <<>>]
  /\ UNCHANGED <<w, sink, handed, plain, sessions, wres, cnt, source, tamper, r, rh, pw, hd, srv>>

\* sender.send returns: the receiver is gone, or the channel has room
SendReadyNoBound(p) == p.rx = "dropped" \/ Len(p.queue) < ChannelBound + 1

SendReady(p) == p.rx = "dropped" \/ Len(p.queue) < ChannelBound

\* the rest of PipeWriter::write once send has returned: "send error", or the
\* chunk is queued, written grows by its length and the call returns Ok(len)
AfterSend(p, buf) ==
  IF p.rx = "dropped"
  THEN [p EXCEPT !.tx = "idle", !.pending = <<>>, !.wret = "send error"]
  ELSE [p EXCEPT !.tx = "idle", !.pending = <<>>, !.wret = "ok",
                 !.queue = Append(@, buf), !.written = @ + Len(buf),
                 !.acc = @ + Len(buf)]

\* the buffer of the k-th write call: ChunkLen(k) bytes that follow the acc bytes
\* handed over so far
PipeBuf(p) == [i \in 1..ChunkLen(p.calls) |-> p.acc + i]

\* PipeWriter::write(buf) is called: it returns at once, or the thread blocks in send
PipeWrite ==
  /\ pipe.st = "open"
  /\ pipe.tx = "idle"
  /\ pipe.calls < MaxPipeWrites
  /\ pipe' = IF SendReady(pipe)
             THEN AfterSend([pipe EXCEPT !.calls = @ + 1], PipeBuf(pipe))
             ELSE [pipe EXCEPT !.calls = @ + 1, !.tx = "sending", !.stalls = @ + 1,
                               !.pending = PipeBuf(pipe)]
  /\ UNCHANGED <<w, sink, handed, plain, sessions, wres, cnt, source, tamper, r, rh, pw, hd, srv>>

\* the thread blocked in send is woken and PipeWriter::write returns
PipeWriteWake ==
  /\ pipe.st = "open"
  /\ pipe.tx = "sending"
  /\ SendReady(pipe)
  /\ pipe' = AfterSend(pipe, pipe.pending)
  /\ UNCHANGED <<w, sink, handed, plain, sessions, wres, cnt, source, tamper, r, rh, pw, hd, srv>>

\* receiver.recv returns: a chunk is queued, or the sender is gone
RecvReady(p) == p.queue # <<>> \/ p.tx = "dropped"

\* lines 33-40: an empty buffer is replaced by the chunk received, if there is one
Refill(p) ==
  IF p.buffer = <<>> /\ p.queue # <<>>
  THEN [p EXCEPT !.buffer = Head(p.queue), !.queue = Tail(p.queue)]
  ELSE p

\* lines 41-44: min(buf.len(), buffer.len()) bytes are drained and their number returned
DrainBack(p, n) ==
  [p EXCEPT !.rx = "idle", !.want = 0,
            !.rret = Min(n, Len(p.buffer)),
            !.rbuf = SubSeq(p.buffer, Len(p.buffer) - Min(n, Len(p.buffer)) + 1,
                            Len(p.buffer)),
            !.got = @ + Min(n, Len(p.buffer)),
            !.buffer = SubSeq(@, 1, Len(p.buffer) - Min(n, Len(p.buffer)))]

Drain(p, n) ==
  [p EXCEPT !.rx = "idle", !.want = 0,
            !.rret = Min(n, Len(p.buffer)),
            !.rbuf = SubSeq(p.buffer, 1, Min(n, Len(p.buffer))),
            !.got = @ + Min(n, Len(p.buffer)),
            !.buffer = SubSeq(@, Min(n, Len(p.buffer)) + 1, Len(p.buffer))]

\* PipeReader::read(buf) with buf.len() = n is called: it returns at once, or the
\* thread blocks in recv
PipeRead(n) ==
  /\ pipe.st = "open"
  /\ pipe.rx = "idle"
  /\ pipe' = IF pipe.buffer # <<>> \/ RecvReady(pipe)
             THEN Drain(Refill(pipe), n)
             ELSE [pipe EXCEPT !.rx = "receiving", !.want = n]
  /\ UNCHANGED <<w, sink, handed, plain, sessions, wres, cnt, source, tamper, r, rh, pw, hd, srv>>

\* the thread blocked in recv is woken and PipeReader::read returns
PipeReadWake ==
  /\ pipe.st = "open"
  /\ pipe.rx = "receiving"
  /\ RecvReady(pipe)
  /\ pipe' = Drain(Refill(pipe), pipe.want)
  /\ UNCHANGED <<w, sink, handed, plain, sessions, wres, cnt, source, tamper, r, rh, pw, hd, srv>>

\* the PipeWriter is dropped, and its SyncSender with it
PipeWriterDrop ==
  /\ pipe.st = "open"
  /\ pipe.tx = "idle"
  /\ pipe' = [pipe EXCEPT !.tx = "dropped"]
  /\ UNCHANGED <<w, sink, handed, plain, sessions, wres, cnt, source, tamper, r, rh, pw, hd, srv>>

\* the PipeReader is dropped: its buffer and its Receiver with the chunks queued
PipeReaderDrop ==
  /\ pipe.st = "open"
  /\ pipe.rx = "idle"
  /\ pipe' = [pipe EXCEPT !.rx = "dropped", !.queue = <<>>, !.buffer = <<>>]
  /\ UNCHANGED <<w, sink, handed, plain, sessions, wres, cnt, source, tamper, r, rh, pw, hd, srv>>

\* ------------------------------------------------------------ TarPassword

\* A str is the sequence of its bytes. '-', '+', '0'
Dash == 45

Plus == 43

Zero == 48

\* crate::bip39::WORDS, its first eight words: abandon, ability, able, about,
\* above, absent, absorb, abstract
WORDS ==
  << <<97, 98, 97, 110, 100, 111, 110>>,
     <<97, 98, 105, 108, 105, 116, 121>>,
     <<97, 98, 108, 101>>,
     <<97, 98, 111, 117, 116>>,
     <<97, 98, 111, 118, 101>>,
     <<97, 98, 115, 101, 110, 116>>,
     <<97, 98, 115, 111, 114, 98>>,
     <<97, 98, 115, 116, 114, 97, 99, 116>> >>

\* "{:04}" of a u16: at least four decimal digits, zeros in front
Fmt04(n) ==
  IF n < 10000
  THEN <<Zero + (n \div 1000), Zero + ((n \div 100) % 10), Zero + ((n \div 10) % 10),
         Zero + (n % 10)>>
  ELSE <<Zero + (n \div 10000), Zero + ((n \div 1000) % 10), Zero + ((n \div 100) % 10),
         Zero + ((n \div 10) % 10), Zero + (n % 10)>>

\* Display for TarPassword: "{:04}-{}-{}-{}-{}"
to_string(p) ==
  Fmt04(p.prefix) \o <<Dash>> \o WORDS[p.words[1] + 1] \o <<Dash>>
    \o WORDS[p.words[2] + 1] \o <<Dash>> \o WORDS[p.words[3] + 1] \o <<Dash>>
    \o WORDS[p.words[4] + 1]

\* input.split('-'): the places of the '-', the k-th of them (0 before the first
\* byte, the place after the last byte from the last on), the pieces between them
Dashes(s) == {i \in 1..Len(s) : s[i] = Dash}

DashAt(s, k) ==
  IF k = 0 THEN 0
  ELSE IF k > Cardinality(Dashes(s)) THEN Len(s) + 1
  ELSE CHOOSE i \in Dashes(s) : Cardinality({j \in Dashes(s) : j < i}) = k - 1

split(s) ==
  [k \in 1..(Cardinality(Dashes(s)) + 1) |-> SubSeq(s, DashAt(s, k - 1) + 1, DashAt(s, k) - 1)]

\* str::parse::<u16>: an optional '+', then one digit or more, the value at most
\* 65535; None otherwise. digits(t) is t without the sign, DigitAt its i-th digit
\* from the right.
digits(t) == IF t # <<>> /\ t[1] = Plus THEN Tail(t) ELSE t

DigitAt(b, i) == IF i <= Len(b) THEN b[Len(b) - i + 1] - Zero ELSE 0

Value5(b) ==
  DigitAt(b, 1) + 10 * DigitAt(b, 2) + 100 * DigitAt(b, 3) + 1000 * DigitAt(b, 4)
    + 10000 * DigitAt(b, 5)

parse_u16(t) ==
  IF /\ digits(t) # <<>>
     /\ \A i \in 1..Len(digits(t)) : digits(t)[i] \in Zero..(Zero + 9)
     /\ \A i \in 1..(Len(digits(t)) - 5) : digits(t)[i] = Zero
     /\ Value5(digits(t)) <= 65535
  THEN Value5(digits(t))
  ELSE None

\* the order of str: byte by byte, a proper prefix first
StrLess(a, b) ==
  \E i \in 1..(Min(Len(a), Len(b)) + 1) :
    /\ \A j \in 1..(i - 1) : a[j] = b[j]
    /\ \/ i > Len(a) /\ i <= Len(b)
       \/ i <= Len(a) /\ i <= Len(b) /\ a[i] < b[i]

\* one round of slice::binary_search between left and right
search_step(s, x) ==
  IF s.found # None \/ s.left >= s.right THEN s
  ELSE IF WORDS[s.left + ((s.right - s.left) \div 2) + 1] = x
  THEN [s EXCEPT !.found = s.left + ((s.right - s.left) \div 2)]
  ELSE IF StrLess(WORDS[s.left + ((s.right - s.left) \div 2) + 1], x)
  THEN [s EXCEPT !.left = s.left + ((s.right - s.left) \div 2) + 1]
  ELSE [s EXCEPT !.right = s.left + ((s.right - s.left) \div 2)]

\* BIP39_WORDS.binary_search(&input_word): Ok(idx) as idx, Err as None; four rounds
\* end the search of eight words
binary_search(x) ==
  search_step(search_step(search_step(search_step(
    [left |-> 0, right |-> Len(WORDS), found |-> None], x), x), x), x).found

to_lowercase(t) == [i \in 1..Len(t) |-> IF t[i] \in 65..90 THEN t[i] + 32 ELSE t[i]]

Without(s, i) == SubSeq(s, 1, i - 1) \o SubSeq(s, i + 1, Len(s))

\* levenshtein(a, b) <= 1: equal, one byte replaced, one byte left out or put in
levenshtein_le1(a, b) ==
  \/ a = b
  \/ Len(a) = Len(b) /\ Cardinality({i \in 1..Len(a) : a[i] # b[i]}) = 1
  \/ Len(a) + 1 = Len(b) /\ \E i \in 1..Len(b) : a = Without(b, i)
  \/ Len(b) + 1 = Len(a) /\ \E i \in 1..Len(a) : b = Without(a, i)

candidates(t) == {id \in 0..(Len(WORDS) - 1) : levenshtein_le1(to_lowercase(t), WORDS[id + 1])}

\* lines 44-65, one word: its index by binary search, or the one candidate within
\* distance 1 of a word of 2 to 10 bytes, or None
word_index(t) ==
  IF binary_search(t) # None THEN binary_search(t)
  ELSE IF Len(t) <= 10 /\ Len(t) >= 2 /\ Cardinality(candidates(t)) = 1
  THEN CHOOSE id \in candidates(t) : TRUE
  ELSE None

NotParsed == [ok |-> FALSE]

\* TarPassword::parse without its check of trailing words
parseNoTrailing(input) ==
  IF parse_u16(split(input)[1]) = None THEN NotParsed
  ELSE IF Len(split(input)) < 5 THEN NotParsed
  ELSE IF \E k \in 2..5 : word_index(split(input)[k]) = None THEN NotParsed
  ELSE [ok |-> TRUE, prefix |-> parse_u16(split(input)[1]),
        words |-> [k \in 1..4 |-> word_index(split(input)[k + 1])]]

\* TarPassword::parse: None as NotParsed
parse(input) ==
  IF parse_u16(split(input)[1]) = None THEN NotParsed
  ELSE IF Len(split(input)) < 5 THEN NotParsed
  ELSE IF \E k \in 2..5 : word_index(split(input)[k]) = None THEN NotParsed
  ELSE IF Len(split(input)) > 5 THEN NotParsed
  ELSE [ok |-> TRUE, prefix |-> parse_u16(split(input)[1]),
        words |-> [k \in 1..4 |-> word_index(split(input)[k + 1])]]

\* TarPassword::generate draws a prefix and four word indices
generate(prefix, words) ==
  /\ pw.st = "none"
  /\ pw' = [st |-> "password", p |-> [prefix |-> prefix, words |-> words]]
  /\ UNCHANGED <<w, sink, handed, plain, sessions, wres, cnt, source, tamper, r, rh, pipe, hd, srv>>

\* password.to_string()
PasswordToString ==
  /\ pw.st = "password"
  /\ pw' = [st |-> "text", p |-> pw.p, text |-> to_string(pw.p), edits |-> <<>>]
  /\ UNCHANGED <<w, sink, handed, plain, sessions, wres, cnt, source, tamper, r, rh, pipe, hd, srv>>

\* the text on its way to the parser: its last word is cut off with its '-', a
\* word is put after it, or its last byte is left out
Edited(text, e) ==
  IF e = "drop" THEN SubSeq(text, 1, DashAt(text, Cardinality(Dashes(text))) - 1)
  ELSE IF e = "add" THEN text \o <<Dash>> \o WORDS[3]
  ELSE SubSeq(text, 1, Len(text) - 1)

PasswordEdit(e) ==
  /\ pw.st = "text"
  /\ Len(pw.edits) < MaxEdits
  /\ e = "drop" => Dashes(pw.text) # {}
  /\ e = "typo" => pw.text # <<>> /\ pw.text[Len(pw.text)] # Dash
  /\ pw' = [pw EXCEPT !.text = Edited(pw.text, e), !.edits = Append(@, e)]
  /\ UNCHANGED <<w, sink, handed, plain, sessions, wres, cnt, source, tamper, r, rh, pipe, hd, srv>>

\* TarPassword::parse(text)
PasswordParse ==
  /\ pw.st = "text"
  /\ pw' = [st |-> "parsed", p |-> pw.p, text |-> pw.text, edits |-> pw.edits,
            parsed |-> parse(pw.text)]
  /\ UNCHANGED <<w, sink, handed, plain, sessions, wres, cnt, source, tamper, r, rh, pipe, hd, srv>>

\* ------------------------------------------------------------ the test harness

BlockAt(s, k) == BSlice(s, k * BLOCK_SIZE, (k + 1) * BLOCK_SIZE)

NBlocks(s) == BLen(s) \div BLOCK_SIZE

\* s with block k replaced by blk
PutBlock(s, k, blk) ==
  BCat(BCat(BTake(s, k * BLOCK_SIZE), blk), BDrop(s, (k + 1) * BLOCK_SIZE))

\* encrypt_all(&original[0..n], passphrase): a ciphertext of its own, of one block
ForeignSalt == SaltOf(0)

EncryptOne(n, passphrase, salt) ==
  SealChunk(CopyIn(NewWriter(passphrase, salt), BData(0, n)))

\* fail_on_ordering_has_been_changed: two blocks of the ciphertext change places
Swap(i, j) ==
  /\ Writing
  /\ w.st = "dropped"
  /\ i < j
  /\ j < NBlocks(sink)
  /\ BLen(sink) = NBlocks(sink) * BLOCK_SIZE
  /\ source' = PutBlock(PutBlock(sink, i, BlockAt(sink, j)), j, BlockAt(sink, i))
  /\ tamper' = <<"swap", i, j>>
  /\ UNCHANGED <<r, rh, cnt>>
  /\ UNCHANGED wvars
  /\ UNCHANGED tvars

\* fail_on_write_in_between: block k is overwritten by the block of a fresh ciphertext
Splice(k, n) ==
  /\ Writing
  /\ w.st = "dropped"
  /\ k < NBlocks(sink)
  /\ BLen(sink) = NBlocks(sink) * BLOCK_SIZE
  /\ source' = PutBlock(sink, k, EncryptOne(n, WriterPassphrase, ForeignSalt))
  /\ tamper' = <<"splice", k, n>>
  /\ UNCHANGED <<r, rh, cnt>>
  /\ UNCHANGED wvars
  /\ UNCHANGED tvars

\* the ciphertext with the magic byte and the version/variant byte of block k
\* overwritten
SetHeader(k, magic, vv) ==
  /\ Writing
  /\ w.st = "dropped"
  /\ k < NBlocks(sink)
  /\ BLen(sink) = NBlocks(sink) * BLOCK_SIZE
  /\ source' = PutBlock(sink, k, BCat(BLit(<<magic, vv>>), BDrop(BlockAt(sink, k), 2)))
  /\ tamper' = <<"header", k, magic, vv>>
  /\ UNCHANGED <<r, rh, cnt>>
  /\ UNCHANGED wvars
  /\ UNCHANGED tvars

\* the blocks q[1], q[2], ... of the ciphertext s, one after the other
Arranged(s, q) ==
  BCat(BCat(BlockAt(s, q[1]), IF Len(q) >= 2 THEN BlockAt(s, q[2]) ELSE <<>>),
       IF Len(q) >= 3 THEN BlockAt(s, q[3]) ELSE <<>>)

\* the ciphertext reordered: blocks left out, moved and repeated (the tests swap two
\* blocks and write one block over another)
Rearrange(q) ==
  /\ Writing
  /\ w.st = "dropped"
  /\ BLen(sink) = NBlocks(sink) * BLOCK_SIZE
  /\ \A i \in 1..Len(q) : q[i] < NBlocks(sink)
  /\ source' = Arranged(sink, q)
  /\ tamper' = <<"arrange", q>>
  /\ UNCHANGED <<r, rh, cnt>>
  /\ UNCHANGED wvars
  /\ UNCHANGED tvars

\* the ciphertext cut off inside a block, after n bytes
Truncate(n) ==
  /\ Writing
  /\ w.st = "dropped"
  /\ n < BLen(sink)
  /\ n % BLOCK_SIZE # 0
  /\ source' = BTake(sink, n)
  /\ tamper' = <<"truncate", n>>
  /\ UNCHANGED <<r, rh, cnt>>
  /\ UNCHANGED wvars
  /\ UNCHANGED tvars

\* ------------------------------------------------------------ EncryptedReader

\* the bytes of a salt that stream_state and last_stream are keyed by. The fields
\* are declared over [u8;8] (lines 8-9) and used with header.salt, a [u8;10]
\* (lines 58-66, 92): a build keys them by the salt, or by its first eight bytes.
\* stream_key_len is the choice of the build.
StreamKey(rd, salt) == SubSeq(salt, 1, rd.stream_key_len)

\* EncryptedReader::new over a source that starts at offset 0 (inner_pos) and hands
\* over every byte it has, up to the length asked for (inner_cap)
NewReader(passphrase) ==
  [st |-> "open", inner_pos |-> 0, inner_cap |-> BLOCK_SIZE, passphrase |-> passphrase, stream_state |-> <<>>,
   stream_key_len |-> 10, last_stream |-> NoSalt, current_chunk_position |-> PAYLOAD_SIZE,
   current_chunk |-> BConst(0, BLOCK_SIZE), global_position |-> 0]

\* a check of a known sub-stream that takes the counter for the global block index
KnownStreamOkAbsolute(state, current_block, h) ==
  /\ ~(state.next_stream_block # None /\ state.next_stream_block <= current_block)
  /\ U32Small(h.blockcounter)
  /\ current_block = h.blockcounter

\* a check of a known sub-stream that forgets where the sub-stream was superseded
KnownStreamOkNoBoundary(state, current_block, h) ==
  /\ U32Small(h.blockcounter)
  /\ current_block = state.first_stream_chunk + h.blockcounter

\* a check of a known sub-stream that rejects it before its boundary, not from it on
KnownStreamOkEarlier(state, current_block, h) ==
  /\ ~(state.next_stream_block # None /\ current_block < state.next_stream_block)
  /\ U32Small(h.blockcounter)
  /\ current_block = state.first_stream_chunk + h.blockcounter

\* the check of a known sub-stream in get_state (block indices stay far below
\* 2^31, so a counter of 2^31 or more matches none)
KnownStreamOk(state, current_block, h) ==
  /\ ~(state.next_stream_block # None /\ state.next_stream_block <= current_block)
  /\ U32Small(h.blockcounter)
  /\ current_block = state.first_stream_chunk + h.blockcounter

\* an admission that takes a new sub-stream wherever its first block would lie
AdmitNewAny(current_block, h) == U32Small(h.blockcounter)

\* get_state, lines 82-85: a new sub-stream is admitted when its first block,
\* current_block - blockcounter, is not negative
AdmitNew(current_block, h) ==
  U32Small(h.blockcounter) /\ current_block - h.blockcounter >= 0

\* an update of the last block that puts the boundary one block further
mark_lastNext(rd, salt, current_block) ==
  IF rd.last_stream # NoSalt /\ rd.last_stream # salt
       /\ rd.last_stream \in DOMAIN rd.stream_state
    THEN [rd.stream_state EXCEPT ![rd.last_stream].next_stream_block = current_block + 1]
    ELSE rd.stream_state

\* get_state, "Update last block" (lines 58-62): the map afterwards
mark_last(rd, salt, current_block) ==
  IF rd.last_stream # NoSalt /\ rd.last_stream # salt
       /\ rd.last_stream \in DOMAIN rd.stream_state
    THEN [rd.stream_state EXCEPT ![rd.last_stream].next_stream_block = current_block]
    ELSE rd.stream_state

\* get_state: the reader afterwards, the result ("ok", "InvalidBlockCounter", or
\* "panic" for the unwrap of a last_stream that has no entry), and the key
get_state(rd, h) ==
  LET current_block == rd.global_position \div PAYLOAD_SIZE
      salt == StreamKey(rd, h.salt)
      transition == rd.last_stream # NoSalt /\ rd.last_stream # salt
      ss1 == mark_last(rd, salt, current_block)
      rd1 == [rd EXCEPT !.stream_state = ss1, !.last_stream = salt]
  IN  IF transition /\ rd.last_stream \notin DOMAIN rd.stream_state
        THEN [r |-> rd, res |-> "panic", key |-> <<>>]
      ELSE IF salt \in DOMAIN ss1
        THEN IF KnownStreamOk(ss1[salt], current_block, h)
               THEN [r |-> rd1, res |-> "ok", key |-> ss1[salt].key]
               ELSE [r |-> rd1, res |-> "InvalidBlockCounter", key |-> <<>>]
      ELSE LET key == generate_key(rd.passphrase, h)
               start_chunk_position == current_block - h.blockcounter
           IN  IF ~AdmitNew(current_block, h)
                 THEN [r |-> rd1, res |-> "InvalidBlockCounter", key |-> <<>>]
                 ELSE [r |-> [rd1 EXCEPT !.stream_state =
                                (salt :> [key |-> key,
                                          first_stream_chunk |-> start_chunk_position,
                                          next_stream_block |-> None]) @@ ss1],
                       res |-> "ok", key |-> key]

\* static checks that leave out version and variant
HeaderCheckMagicOnly(h) == IF ~magic_ok(h) THEN "InvalidHeader" ELSE "ok"

\* the static checks of read_chunk on a parsed header, "ok" or the error; the magic
\* check of line 110 is read as Header::magic_ok, the check the crate defines for
\* the magic byte
HeaderCheck(h) ==
  IF ~magic_ok(h) THEN "InvalidHeader"
  ELSE IF h.version # 0 \/ h.variant # 1 THEN "UnsupportedVariant"
  ELSE "ok"

\* decrypt_in_place_detached: the tag is verified first, the payload is decrypted
\* only when it matches
TagOk(key, nonce, payload, tag) == PolyTag(key, nonce, payload) = tag

\* read_chunk from decrypt_in_place_detached on: g is what get_state returned
Decrypt(g, nonce, header, payload, tag) ==
  IF g.res # "ok" THEN [r |-> g.r, res |-> g.res]
  ELSE IF ~TagOk(g.key, nonce, payload, tag) THEN [r |-> g.r, res |-> "KeyError"]
  ELSE [r |-> [g.r EXCEPT
                 !.current_chunk =
                    BCat(BCat(header, ApplyKeyStream(g.key, nonce, payload)), tag),
                 !.current_chunk_position = 0],
        res |-> "ok"]

\* read_chunk from the parsed header h on
CheckChunk(rd, h) ==
  IF HeaderCheck(h) # "ok" THEN [r |-> rd, res |-> HeaderCheck(h)]
  ELSE Decrypt(get_state(rd, h), payload_nonce(h),
               BTake(rd.current_chunk, HEADER_SIZE),
               BSlice(rd.current_chunk, HEADER_SIZE, HEADER_SIZE + PAYLOAD_SIZE),
               BDrop(rd.current_chunk, HEADER_SIZE + PAYLOAD_SIZE))

\* read_chunk after read_exact has put n > 0 bytes into the chunk
ParseChunk(rd, n) ==
  IF n < BLOCK_SIZE THEN [r |-> rd, res |-> "InvalidChunk"]
  ELSE CheckChunk(rd, HeaderFromBytes(BVals(rd.current_chunk, 0, HEADER_SIZE)))

\* inner.read(&mut current_chunk[..]): the bytes one call of read hands over, of a
\* source that has avail bytes left and hands over at most cap bytes per call
InnerRead(avail, cap) ==
  IF avail <= 0 THEN 0 ELSE Min(Min(BLOCK_SIZE, cap), avail)

\* a read_chunk that takes the first read for the whole block
ReadExactOnce(n, avail) == n

\* the match on the first read's n and inner.read_exact(&mut current_chunk[n..]):
\* the bytes in the chunk afterwards (read_exact reads on until the chunk is full
\* or the source ends)
ReadExact(n, avail) ==
  IF n = 0 \/ n = BLOCK_SIZE THEN n ELSE n + Min(BLOCK_SIZE - n, avail - n)

\* a read_chunk that leaves current_chunk_position where it was while it reads
FilledChunkKeep(rd, src, got) ==
  ParseChunk([rd EXCEPT
                !.current_chunk = BCat(BSlice(src, rd.inner_pos, rd.inner_pos + got),
                                       BDrop(rd.current_chunk, got)),
                !.inner_pos = rd.inner_pos + got],
             got)

\* read_chunk once the source has handed over got > 0 bytes
FilledChunk(rd, src, got) ==
  ParseChunk([rd EXCEPT
                !.current_chunk_position = PAYLOAD_SIZE,
                !.current_chunk = BCat(BSlice(src, rd.inner_pos, rd.inner_pos + got),
                                       BDrop(rd.current_chunk, got)),
                !.inner_pos = rd.inner_pos + got],
             got)

\* a read_chunk that leaves the chunk it had current when the source is at its end
NoChunkStale(rd) == rd

\* read_chunk, line 100: no chunk is current while the next is read
NoChunk(rd) == [rd EXCEPT !.current_chunk_position = PAYLOAD_SIZE]

\* read_chunk over the source src: the reader afterwards and the result, "ok" for
\* Ok(true), "eof" for Ok(false), else the error
read_chunk(rd, src) ==
  IF InnerRead(BLen(src) - rd.inner_pos, rd.inner_cap) = 0
    THEN [r |-> NoChunk(rd), res |-> "eof"]
    ELSE FilledChunk(rd, src,
                     ReadExact(InnerRead(BLen(src) - rd.inner_pos, rd.inner_cap),
                               BLen(src) - rd.inner_pos))

\* read once a chunk is at hand: c is what read_chunk returned
CopyOut(c, len) ==
  LET to_read == Min(len, PAYLOAD_SIZE - c.r.current_chunk_position)
  IN  IF c.res = "eof" THEN [r |-> c.r, res |-> "ok", bytes |-> <<>>, eof |-> TRUE]
      ELSE IF c.res # "ok" THEN [r |-> c.r, res |-> c.res, bytes |-> <<>>, eof |-> FALSE]
      ELSE [r |-> [c.r EXCEPT
                     !.current_chunk_position = @ + to_read,
                     !.global_position = @ + to_read],
            res |-> "ok",
            bytes |-> BSlice(c.r.current_chunk,
                             HEADER_SIZE + c.r.current_chunk_position,
                             HEADER_SIZE + c.r.current_chunk_position + to_read),
            eof |-> FALSE]

\* <EncryptedReader as Read>::read with a buffer of len bytes: the reader afterwards,
\* the result ("ok", or the error of read_chunk) and the bytes put into the buffer
read(rd, src, len) ==
  CopyOut(IF rd.current_chunk_position = PAYLOAD_SIZE
            THEN read_chunk(rd, src)
            ELSE [r |-> rd, res |-> "ok"],
          len)

\* seek(SeekFrom::Start(n)) after the chunk was read: c is what read_chunk returned
SeekInChunk(c, offset) ==
  IF c.res = "ok"
    THEN [r |-> [c.r EXCEPT !.current_chunk_position = offset,
                            !.global_position = @ + offset],
          res |-> "ok"]
  ELSE IF c.res = "eof" THEN [r |-> c.r, res |-> "ok"]
  ELSE [r |-> c.r, res |-> c.res]

\* a seek that keeps the salt of the block read before it
seek_startKeep(rd, src, n) ==
  SeekInChunk(read_chunk([rd EXCEPT !.inner_pos = (n \div PAYLOAD_SIZE) * BLOCK_SIZE,
                                    !.global_position = (n \div PAYLOAD_SIZE) * PAYLOAD_SIZE],
                         src),
              n % PAYLOAD_SIZE)

\* <EncryptedReader as Seek>::seek(SeekFrom::Start(n))
seek_start(rd, src, n) ==
  SeekInChunk(read_chunk([rd EXCEPT !.inner_pos = (n \div PAYLOAD_SIZE) * BLOCK_SIZE,
                                    !.last_stream = NoSalt,
                                    !.global_position = (n \div PAYLOAD_SIZE) * PAYLOAD_SIZE],
                         src),
              n % PAYLOAD_SIZE)

\* a seek from the end that takes the length of the source for the length of the
\* plaintext
seek_endBytes(rd, src, d) ==
  IF BLen(src) + d < 0
    THEN [r |-> [rd EXCEPT !.inner_pos = BLen(src)], res |-> "InvalidInput"]
    ELSE seek_start([rd EXCEPT !.inner_pos = BLen(src)], src, BLen(src) + d)

\* <EncryptedReader as Seek>::seek(SeekFrom::End(d)): inner.seek(End(0)) leaves the
\* source at its end and returns its length
seek_end(rd, src, d) ==
  IF (BLen(src) \div BLOCK_SIZE) * PAYLOAD_SIZE + d < 0
    THEN [r |-> [rd EXCEPT !.inner_pos = BLen(src)], res |-> "InvalidInput"]
    ELSE seek_start([rd EXCEPT !.inner_pos = BLen(src)], src,
                    (BLen(src) \div BLOCK_SIZE) * PAYLOAD_SIZE + d)

\* <EncryptedReader as Seek>::seek(SeekFrom::Current(d))
seek_current(rd, src, d) ==
  IF rd.global_position + d < 0 THEN [r |-> rd, res |-> "InvalidInput"]
  ELSE seek_start(rd, src, rd.global_position + d)

Failed(res) == res \notin {"ok", "eof"}

\* decrypt_all: EncryptedReader::new over the ciphertext, once the writers are gone
ReaderNew(p, maxReaders) ==
  /\ w.st \in {"none", "dropped"}
  /\ cnt.readers < maxReaders
  /\ r' = NewReader(p)
  /\ source' = IF tamper = <<"none">> THEN sink ELSE source
  /\ rh' = [NoHistory EXCEPT !.prev = r.passphrase]
  /\ cnt' = [cnt EXCEPT !.readers = @ + 1, !.seeks = 0]
  /\ UNCHANGED tamper
  /\ UNCHANGED wvars
  /\ UNCHANGED tvars

\* EncryptedReader::new in a build that keys stream_state by k bytes of the salt
ReaderNewKeyed(p, k) ==
  /\ w.st \in {"none", "dropped"}
  /\ cnt.readers < 1
  /\ r' = [NewReader(p) EXCEPT !.stream_key_len = k]
  /\ source' = IF tamper = <<"none">> THEN sink ELSE source
  /\ rh' = [NoHistory EXCEPT !.prev = r.passphrase]
  /\ cnt' = [cnt EXCEPT !.readers = @ + 1, !.seeks = 0]
  /\ UNCHANGED tamper
  /\ UNCHANGED wvars
  /\ UNCHANGED tvars

\* EncryptedReader::new over a source that hands over at most cap bytes per read
ReaderNewShort(p, cap) ==
  /\ w.st \in {"none", "dropped"}
  /\ cnt.readers < 1
  /\ r' = [NewReader(p) EXCEPT !.inner_cap = cap]
  /\ source' = IF tamper = <<"none">> THEN sink ELSE source
  /\ rh' = [NoHistory EXCEPT !.prev = r.passphrase]
  /\ cnt' = [cnt EXCEPT !.readers = @ + 1, !.seeks = 0]
  /\ UNCHANGED tamper
  /\ UNCHANGED wvars
  /\ UNCHANGED tvars

\* the reader and its history after a call of read returned x
ReadDone(x, len) ==
  /\ r' = [x.r EXCEPT !.st = IF x.res = "panic" THEN "panicked" ELSE "open"]
  /\ rh' = [rh EXCEPT
              !.out = BCat(@, x.bytes),
              !.whole = /\ @
                        /\ cnt.seeks > 0
                        /\ rh.base + BLen(rh.out) + len <= WholeBlocks(BLen(plain)),
              !.res = IF x.eof THEN "eof" ELSE x.res,
              !.eof = @ \/ (x.eof /\ len > 0),
              !.err = IF @ = "none" /\ Failed(x.res) THEN x.res ELSE @,
              !.errout = IF rh.err = "none" /\ Failed(x.res) THEN BLen(rh.out) ELSE @]

\* a call of read with a buffer of len bytes
Read(len) ==
  /\ r.st = "open"
  /\ ReadDone(read(r, source, len), len)
  /\ UNCHANGED <<source, tamper, cnt>>
  /\ UNCHANGED wvars
  /\ UNCHANGED tvars

\* the reader and its history after a call of seek(SeekFrom::Start(n)) returned x
SeekDone(x, n) ==
  /\ r' = [x.r EXCEPT !.st = IF x.res = "panic" THEN "panicked" ELSE "open"]
  /\ rh' = [rh EXCEPT
              !.out = <<>>,
              !.base = n,
              !.whole = @ /\ n <= WholeBlocks(BLen(plain)),
              !.res = x.res,
              !.seek = <<"start">>,
              !.eof = FALSE,
              !.err = IF @ = "none" /\ Failed(x.res) THEN x.res ELSE @,
              !.errout = IF rh.err = "none" /\ Failed(x.res) THEN 0 ELSE @]

\* the reader and its history after a relative seek returned x: how is the kind of
\* the seek, n the offset it was to reach
RelSeekDone(x, n, how) ==
  /\ r' = [x.r EXCEPT !.st = IF x.res = "panic" THEN "panicked" ELSE "open"]
  /\ rh' = [rh EXCEPT
              !.out = <<>>,
              !.base = n,
              !.whole = FALSE,
              !.res = x.res,
              !.seek = <<how, x.res>>,
              !.eof = FALSE,
              !.err = IF @ = "none" /\ Failed(x.res) THEN x.res ELSE @,
              !.errout = IF rh.err = "none" /\ Failed(x.res) THEN 0 ELSE @]
  /\ cnt' = [cnt EXCEPT !.seeks = @ + 1]
  /\ UNCHANGED <<source, tamper>>
  /\ UNCHANGED wvars
  /\ UNCHANGED tvars

\* a call of seek(SeekFrom::Current(d))
SeekCurrent(d) ==
  /\ r.st = "open"
  /\ cnt.seeks < MaxSeeks
  /\ RelSeekDone(seek_current(r, source, d), r.global_position + d, "current")

\* a call of seek(SeekFrom::End(d))
SeekEnd(d) ==
  /\ r.st = "open"
  /\ cnt.seeks < MaxSeeks
  /\ RelSeekDone(seek_end(r, source, d),
                 (BLen(source) \div BLOCK_SIZE) * PAYLOAD_SIZE + d, "end")

\* a call of seek(SeekFrom::Start(n))
SeekStart(n) ==
  /\ r.st = "open"
  /\ cnt.seeks < MaxSeeks
  /\ SeekDone(seek_start(r, source, n), n)
  /\ cnt' = [cnt EXCEPT !.seeks = @ + 1]
  /\ UNCHANGED <<source, tamper>>
  /\ UNCHANGED wvars
  /\ UNCHANGED tvars

\* ------------------------------------------------------------ server: raw upload and download

DEFAULT_DOWNLOAD_TIMEOUT == 60

\* File::write at offset pos of a file opened without O_APPEND: the byte is put
\* in place, after a run of zeros if pos lies beyond the end
WriteAt(c, pos, b) ==
  IF pos < Len(c)
  THEN [c EXCEPT ![pos + 1] = b]
  ELSE c \o [i \in 1..(pos - Len(c)) |-> 0] \o <<b>>

\* post_upload_raw, lines 124-126: the request is answered 403 if MetaStore::get
\* finds a meta file, and goes on otherwise
UpCheck(u) ==
  /\ srv.up[u].pc = "idle"
  /\ srv' = [srv EXCEPT !.up[u].pc = IF srv.meta.exists THEN "403" ELSE "set"]
  /\ UNCHANGED <<w, sink, handed, plain, sessions, wres, cnt, source, tamper, r, rh, pipe, pw, hd>>

\* with_update_metadata, lines 164-172: MetaStore::set writes the meta file,
\* finished = false
UpMetaSet(u) ==
  /\ srv.up[u].pc = "set"
  /\ srv' = [srv EXCEPT !.up[u].pc = "create",
                        !.meta = [exists |-> TRUE, owner |-> u, finished |-> FALSE]]
  /\ UNCHANGED <<w, sink, handed, plain, sessions, wres, cnt, source, tamper, r, rh, pipe, pw, hd>>

\* line 130: File::create makes the data file, or truncates the one there is
UpCreate(u) ==
  /\ srv.up[u].pc = "create"
  /\ srv' = IF srv.path = 0
            THEN [srv EXCEPT !.up[u].pc = "copy", !.up[u].pos = 0,
                             !.up[u].fd = Len(srv.inodes) + 1,
                             !.path = Len(srv.inodes) + 1,
                             !.inodes = Append(@, <<>>)]
            ELSE [srv EXCEPT !.up[u].pc = "copy", !.up[u].pos = 0,
                             !.up[u].fd = srv.path,
                             !.inodes[srv.path] = <<>>]
  /\ UNCHANGED <<w, sink, handed, plain, sessions, wres, cnt, source, tamper, r, rh, pipe, pw, hd>>

\* line 131: io::copy writes the next byte of the body at the position of its
\* File; after the last byte it returns Ok
UpCopy(u) ==
  /\ srv.up[u].pc = "copy"
  /\ srv.up[u].pos < MaxBody
  /\ srv' = [srv EXCEPT !.inodes[srv.up[u].fd] =
                           WriteAt(@, srv.up[u].pos, Body(u)[srv.up[u].pos + 1]),
                        !.up[u].pos = @ + 1,
                        !.up[u].pc = IF srv.up[u].pos + 1 = MaxBody THEN "finish" ELSE "copy",
                        !.up[u].res = IF srv.up[u].pos + 1 = MaxBody THEN "ok" ELSE @]
  /\ UNCHANGED <<w, sink, handed, plain, sessions, wres, cnt, source, tamper, r, rh, pipe, pw, hd>>

\* line 131: io::copy fails, the body of the request cannot be read to its end
UpBodyFail(u) ==
  /\ srv.up[u].pc = "copy"
  /\ srv' = [srv EXCEPT !.up[u].pc = "finish", !.up[u].res = "err"]
  /\ UNCHANGED <<w, sink, handed, plain, sessions, wres, cnt, source, tamper, r, rh, pipe, pw, hd>>

\* lines 176-177: MetaStore::set writes the request's meta again, finished = true
UpFinish(u) ==
  /\ srv.up[u].pc = "finish"
  /\ srv' = [srv EXCEPT !.up[u].pc = IF srv.up[u].res = "ok" THEN "ok" ELSE "cleanup",
                        !.meta = [exists |-> TRUE, owner |-> u, finished |-> TRUE]]
  /\ UNCHANGED <<w, sink, handed, plain, sessions, wres, cnt, source, tamper, r, rh, pipe, pw, hd>>

\* lines 179-182: after a failure the data file and the meta file are removed
UpCleanup(u) ==
  /\ srv.up[u].pc = "cleanup"
  /\ srv' = [srv EXCEPT !.up[u].pc = "error", !.path = 0, !.meta = NoMeta]
  /\ UNCHANGED <<w, sink, handed, plain, sessions, wres, cnt, source, tamper, r, rh, pipe, pw, hd>>

\* get_download_raw: 404 without a meta file; an error if the data file cannot
\* be opened; else the file is opened and served, through
\* UnfinishedBlockingFileReader if the upload is not finished
DlOpen ==
  /\ srv.dl.pc = "idle"
  /\ srv' = IF ~srv.meta.exists
            THEN [srv EXCEPT !.dl.pc = "done", !.dl.end = "404"]
            ELSE IF srv.path = 0
            THEN [srv EXCEPT !.dl.pc = "done", !.dl.end = "error"]
            ELSE [srv EXCEPT !.dl.pc = "read", !.dl.fd = srv.path, !.dl.pos = 0,
                             !.dl.iter = 0, !.dl.blocking = ~srv.meta.finished]
  /\ UNCHANGED <<w, sink, handed, plain, sessions, wres, cnt, source, tamper, r, rh, pipe, pw, hd>>

\* line 31 and 42-44: file.read(buf) with buf.len() = n. Bytes beyond the
\* position are returned, and the next call of read starts its loop anew; Ok(0)
\* ends a finished file and sends the blocking reader to the meta file
DlFileRead(n) ==
  /\ srv.dl.pc = "read"
  /\ srv' = IF srv.dl.pos < Len(srv.inodes[srv.dl.fd])
            THEN [srv EXCEPT !.dl.out = @ \o SubSeq(srv.inodes[srv.dl.fd], srv.dl.pos + 1,
                                  Min(srv.dl.pos + n, Len(srv.inodes[srv.dl.fd]))),
                             !.dl.pos = Min(srv.dl.pos + n, Len(srv.inodes[srv.dl.fd])),
                             !.dl.iter = 0]
            ELSE IF srv.dl.blocking
            THEN [srv EXCEPT !.dl.pc = "meta"]
            ELSE [srv EXCEPT !.dl.pc = "done", !.dl.end = "eof"]
  /\ UNCHANGED <<w, sink, handed, plain, sessions, wres, cnt, source, tamper, r, rh, pipe, pw, hd>>

\* lines 33-40, 30 and 50: after Ok(0) the meta file is read. No meta or a
\* finished upload ends the stream; else the reader sleeps and reads again,
\* unless this was the last of the iterations
DlMetaGet ==
  /\ srv.dl.pc = "meta"
  /\ srv' = IF ~srv.meta.exists \/ srv.meta.finished
            THEN [srv EXCEPT !.dl.pc = "done", !.dl.end = "eof"]
            ELSE IF srv.dl.iter + 1 = DEFAULT_DOWNLOAD_TIMEOUT
            THEN [srv EXCEPT !.dl.pc = "done", !.dl.end = "timeout", !.dl.iter = @ + 1]
            ELSE [srv EXCEPT !.dl.pc = "read", !.dl.iter = @ + 1]
  /\ UNCHANGED <<w, sink, handed, plain, sessions, wres, cnt, source, tamper, r, rh, pipe, pw, hd>>

\* ------------------------------------------------------------ specifications

\* the writers over a sink that never fails (a Vec), then decrypt_all with their
\* passphrase
Next ==
  \/ WriterNew(WriterPassphrase, MaxSessions)
  \/ \E n \in WriteLens : Write(n, FALSE)
  \/ Drop(FALSE)
  \/ ReaderNew(WriterPassphrase, 1)
  \/ \E n \in ReadLens : Read(n)

Spec == Init /\ [][Next]_vars

\* one writer over a sink whose write_all may fail
NextSinkFail ==
  \/ WriterNew(WriterPassphrase, 1)
  \/ \E n \in TailLens, f \in SinkMayFail : Write(n, f)
  \/ \E f \in SinkMayFail : Drop(f)

SpecSinkFail == Init /\ [][NextSinkFail]_vars

\* one writer, then readers opened with any passphrase, one after the other
NextPassphrase ==
  \/ WriterNew(WriterPassphrase, 1)
  \/ \E n \in TailLens : Write(n, FALSE)
  \/ Drop(FALSE)
  \/ \E p \in Passphrases : ReaderNew(p, MaxReaders)
  \/ \E n \in ReadLens : Read(n)

SpecPassphrase == Init /\ [][NextPassphrase]_vars

\* one writer, then the ciphertext is tampered with and read from the start
NextTamper ==
  \/ WriterNew(WriterPassphrase, 1)
  \/ \E n \in TailLens : Write(n, FALSE)
  \/ Drop(FALSE)
  \/ \E i, j \in 0..(MaxBlocks - 1) : Swap(i, j)
  \/ \E k \in 0..(MaxBlocks - 1), n \in ForeignLens : Splice(k, n)
  \/ ReaderNew(WriterPassphrase, 1)
  \/ \E n \in ReadLens : Read(n)

SpecTamper == Init /\ [][NextTamper]_vars

\* one writer, then a reader that seeks and reads
NextSeek ==
  \/ WriterNew(WriterPassphrase, 1)
  \/ \E n \in TailLens : Write(n, FALSE)
  \/ Drop(FALSE)
  \/ ReaderNew(WriterPassphrase, 1)
  \/ \E n \in ReadLens : Read(n)
  \/ \E n \in SeekOffsets : SeekStart(n)

SpecSeek == Init /\ [][NextSeek]_vars

\* several writers one after the other, then a reader that seeks and reads
NextConcatSeek ==
  \/ WriterNew(WriterPassphrase, MaxSessions)
  \/ \E n \in ConcatLens : Write(n, FALSE)
  \/ Drop(FALSE)
  \/ ReaderNew(WriterPassphrase, 1)
  \/ \E n \in ReadLens : Read(n)
  \/ \E n \in SeekOffsets : SeekStart(n)

SpecConcatSeek == Init /\ [][NextConcatSeek]_vars

\* one writer that starts at a counter close to u32::MAX, over a sink that never
\* fails
NextOverflow ==
  \/ \E c \in StartCounters : WriterFrom(WriterPassphrase, c)
  \/ \E n \in WriteLens : Write(n, FALSE)
  \/ Drop(FALSE)

SpecOverflow == Init /\ [][NextOverflow]_vars

\* one writer, then the ciphertext, whole or cut off inside a block, is read from a
\* source that hands it over in short reads
NextShort ==
  \/ WriterNew(WriterPassphrase, 1)
  \/ \E n \in TailLens : Write(n, FALSE)
  \/ Drop(FALSE)
  \/ \E k \in 0..(MaxBlocks - 1), t \in TruncTails : Truncate(k * BLOCK_SIZE + t)
  \/ \E c \in ShortCaps : ReaderNewShort(WriterPassphrase, c)
  \/ \E n \in ReadLens : Read(n)

SpecShort == Init /\ [][NextShort]_vars

\* one writer that is flushed between its writes
NextFlush ==
  \/ WriterNew(WriterPassphrase, 1)
  \/ \E n \in TailLens : Write(n, FALSE)
  \/ Flush
  \/ Drop(FALSE)

SpecFlush == Init /\ [][NextFlush]_vars

\* one writer from any first counter, then the ciphertext, with the static fields
\* of one header overwritten or not, is read from the start
NextHeader ==
  \/ \E c \in HeaderCounters : WriterFrom(WriterPassphrase, c)
  \/ \E n \in HeaderLens : Write(n, FALSE)
  \/ Drop(FALSE)
  \/ \E k \in 0..(MaxBlocks - 1), m \in MagicBytes, v \in VersionBytes : SetHeader(k, m, v)
  \/ ReaderNew(WriterPassphrase, 1)
  \/ \E n \in ReadLens : Read(n)

SpecHeader == Init /\ [][NextHeader]_vars

\* one writer, then a reader that seeks from the start, from where it is and from
\* the end, and reads
NextRelSeek ==
  \/ WriterNew(WriterPassphrase, 1)
  \/ \E n \in HeaderLens : Write(n, FALSE)
  \/ Drop(FALSE)
  \/ ReaderNew(WriterPassphrase, 1)
  \/ \E n \in ReadLens : Read(n)
  \/ \E n \in RelSeekOffsets : SeekStart(n)
  \/ \E d \in SeekDeltas : SeekCurrent(d)
  \/ \E d \in SeekDeltas : SeekEnd(d)

SpecRelSeek == Init /\ [][NextRelSeek]_vars

\* two writers of whole blocks one after the other, then the ciphertext, reordered
\* or not, is read by a reader that seeks and reads
NextOrder ==
  \/ WriterNew(WriterPassphrase, 2)
  \/ Write(PAYLOAD_SIZE, FALSE)
  \/ Drop(FALSE)
  \/ \E q \in Layouts : Rearrange(q)
  \/ ReaderNew(WriterPassphrase, 1)
  \/ Read(PAYLOAD_SIZE)
  \/ \E n \in OrderOffsets : SeekStart(n)

SpecOrder == Init /\ [][NextOrder]_vars

\* two writers of whole blocks one after the other, then the ciphertext, with
\* blocks removed, repeated or reordered, is read from the start without a seek
NextHead ==
  \/ WriterNew(WriterPassphrase, 2)
  \/ Write(PAYLOAD_SIZE, FALSE)
  \/ Drop(FALSE)
  \/ \E q \in Layouts : Rearrange(q)
  \/ ReaderNew(WriterPassphrase, 1)
  \/ Read(PAYLOAD_SIZE)

SpecHead == Init /\ [][NextHead]_vars

\* two writers of whole blocks whose salts agree in their first eight bytes, then
\* the ciphertext, reordered or not, is read by a reader of either build, opened
\* with the writers' passphrase or another
NextCache ==
  \/ WriterNewTwin(WriterPassphrase, 2)
  \/ Write(PAYLOAD_SIZE, FALSE)
  \/ Drop(FALSE)
  \/ \E q \in Layouts : Rearrange(q)
  \/ \E p \in Passphrases, k \in StreamKeyLens : ReaderNewKeyed(p, k)
  \/ Read(PAYLOAD_SIZE)

SpecCache == Init /\ [][NextCache]_vars

\* a header is made, serialized and parsed again
NextRoundTrip ==
  \/ \E c \in RoundTripCounters, salt \in RoundTripSalts : HeaderMake(c, salt)
  \/ HeaderSerialize
  \/ HeaderParse

SpecRoundTrip == Init /\ [][NextRoundTrip]_vars

\* a producer thread and a consumer thread on the two ends of a pipe
NextPipe ==
  \/ create_pipe
  \/ PipeWrite
  \/ PipeWriteWake
  \/ \E n \in PipeReadLens : PipeRead(n)
  \/ PipeReadWake
  \/ PipeWriterDrop
  \/ PipeReaderDrop

\* a thread that can run does run: a blocked send or recv that can return does,
\* and the consumer goes on calling read as long as it holds the PipeReader
SpecPipe ==
  /\ Init
  /\ [][NextPipe]_vars
  /\ WF_vars(PipeWriteWake)
  /\ WF_vars(PipeReadWake)
  /\ WF_vars(\E n \in PipeReadLens : PipeRead(n))

\* a password is drawn, written out, edited or not, and parsed
NextPassword ==
  \/ \E prefix \in Prefixes, words \in [1..4 -> WordIndices] : generate(prefix, words)
  \/ PasswordToString
  \/ \E e \in {"drop", "add", "typo"} : PasswordEdit(e)
  \/ PasswordParse

SpecPassword == Init /\ [][NextPassword]_vars

\* one upload of an id and one download of it, their steps interleaved freely
NextDownload ==
  \/ \E u \in {1} : UpCheck(u)
  \/ \E u \in {1} : UpMetaSet(u)
  \/ \E u \in {1} : UpCreate(u)
  \/ \E u \in {1} : UpCopy(u)
  \/ \E u \in {1} : UpBodyFail(u)
  \/ \E u \in {1} : UpFinish(u)
  \/ \E u \in {1} : UpCleanup(u)
  \/ DlOpen
  \/ \E n \in DlReadLens : DlFileRead(n)
  \/ DlMetaGet

SpecDownload == Init /\ [][NextDownload]_vars

\* two upload requests for the same id, their steps interleaved freely
NextUpload ==
  \/ \E u \in Uploaders : UpCheck(u)
  \/ \E u \in Uploaders : UpMetaSet(u)
  \/ \E u \in Uploaders : UpCreate(u)
  \/ \E u \in Uploaders : UpCopy(u)
  \/ \E u \in Uploaders : UpBodyFail(u)
  \/ \E u \in Uploaders : UpFinish(u)
  \/ \E u \in Uploaders : UpCleanup(u)

SpecUpload == Init /\ [][NextUpload]_vars

\* ------------------------------------------------------------ properties

\* the blocks a plaintext of len bytes takes
CeilBlocks(len) == (len + PAYLOAD_SIZE - 1) \div PAYLOAD_SIZE

\* the blocks the plaintexts of all writers so far take
SessionBlocks ==
  Cardinality({x \in (1..Len(sessions)) \X (1..(Len(handed) + 1)) :
                 x[2] <= CeilBlocks(sessions[x[1]].len)})

\* the header a block carries on the wire
WireHeader(blk) == HeaderFromBytes(BVals(blk, 0, HEADER_SIZE))

\* the plaintext the block of record rec authenticates under the key of its writer
AuthPlain(rec, key) ==
  ApplyKeyStream(key, payload_nonce(MkHeader(rec.counter, rec.salt)),
                 BSlice(rec.blk, HEADER_SIZE, HEADER_SIZE + PAYLOAD_SIZE))

\* the reader holds the writers' passphrase and has been called
RightReader == r.st # "none" /\ r.passphrase = WriterPassphrase

\* what a reader with the right passphrase owes: no error, and at EOF the plaintext
\* followed by the padding of the last block
Decrypts ==
  /\ rh.err = "none"
  /\ rh.eof => /\ BLen(rh.out) = CeilBlocks(BLen(plain)) * PAYLOAD_SIZE
               /\ BTake(rh.out, BLen(plain)) = plain

\* the bytes a reader delivered before its first error
Delivered == IF rh.err = "none" THEN BLen(rh.out) ELSE rh.errout

\* a read reached EOF with no error before it
CleanEof == rh.eof /\ rh.err = "none"

\* C1: round trip. One writer writes B in any split and is dropped; a reader with
\* the same passphrase reads the sink without error, and at EOF it has delivered
\* ceil(|B|/512)*512 bytes of which the first |B| are B.
C1_RoundTrip ==
  (RightReader /\ Len(sessions) = 1 /\ rh.base = 0) => Decrypts

\* C2: final-block padding. A writer dropped with 1..511 buffered bytes has handed
\* over exactly one more block, which authenticates the buffered bytes followed by
\* zeros up to 512; dropped with an empty buffer it has handed over nothing more.
C2_FinalBlockPadding ==
  w.st = "dropped" =>
    LET s == sessions[Len(sessions)]
        mine == {k \in 1..Len(handed) : handed[k].salt = s.salt}
    IN  IF w.pos > 0
          THEN /\ Cardinality(mine) = (s.len \div PAYLOAD_SIZE) + 1
               /\ AuthPlain(handed[Len(handed)], w.key)
                    = BCat(BSlice(plain, BLen(plain) - w.pos, BLen(plain)),
                           BConst(0, PAYLOAD_SIZE - w.pos))
          ELSE Cardinality(mine) = s.len \div PAYLOAD_SIZE

\* C3: the k-th block a writer hands to the sink carries, in its serialized
\* header, the salt of the writer and the counter k (from 0, one up per block),
\* the final padded block included.
C3_HeaderSaltCounter ==
  \A k \in 1..Len(handed) :
    /\ WireHeader(handed[k].blk).salt = handed[k].salt
    /\ WireHeader(handed[k].blk).blockcounter
         = Cardinality({j \in 1..(k - 1) : handed[j].salt = handed[k].salt})

\* C4: nonce uniqueness. No two blocks a writer hands to the sink are encrypted
\* under the same (salt, blockcounter), calls after a failed write included.
C4_NonceUnique ==
  \A i, j \in 1..Len(handed) :
    i < j => <<handed[i].salt, handed[i].counter>> # <<handed[j].salt, handed[j].counter>>

\* C5: framing. Every block handed to the sink is 16 + 512 + 16 = 544 bytes, the
\* sink holds a whole number of them, and once the writer is dropped it holds
\* ceil(|B|/512) * 544 bytes for each plaintext B written.
C5_Framing ==
  /\ \A k \in 1..Len(handed) :
       BLen(handed[k].blk) = HEADER_SIZE + PAYLOAD_SIZE + POLY_TAG_SIZE
  /\ BLen(sink) = Len(handed) * BLOCK_SIZE
  /\ w.st = "dropped" => BLen(sink) = SessionBlocks * BLOCK_SIZE

\* 1025 bytes written and the writer dropped: 3 * 544 = 1632 bytes in the sink
C5_Witness ==
  /\ w.st = "dropped"
  /\ Len(sessions) = 1
  /\ BLen(plain) = 2 * PAYLOAD_SIZE + 1
  /\ BLen(sink) = 3 * BLOCK_SIZE

\* C6: wrong passphrase. A reader opened with another passphrase than the
\* writer's over a non-empty ciphertext fails with KeyError on the first block,
\* delivers nothing and leaves the ciphertext as it was; a reader opened with the
\* right passphrase afterwards decrypts it.
C6_WrongPassphrase ==
  /\ (r.st # "none" /\ r.passphrase # WriterPassphrase /\ rh.res # "none"
        /\ BLen(source) > 0)
       => (rh.err = "KeyError" /\ rh.out = <<>> /\ source = sink)
  /\ (RightReader /\ rh.prev \notin {0, WriterPassphrase} /\ Len(sessions) = 1
        /\ rh.base = 0)
       => (source = sink /\ Decrypts)

\* C7: concatenation. The ciphertexts of up to three writers (same passphrase,
\* fresh salts), each over a plaintext of a multiple of 512 bytes, read one after
\* the other by one reader: no error, and at EOF exactly the plaintexts in order.
C7_Concat ==
  (RightReader /\ \A i \in 1..Len(sessions) : sessions[i].len % PAYLOAD_SIZE = 0)
    => (rh.err = "none" /\ (rh.eof => rh.out = plain))

\* three writers with plaintexts of 512 bytes or more, read to EOF
C7_Witness ==
  /\ RightReader
  /\ Len(sessions) = 3
  /\ \A i \in 1..3 : sessions[i].len > 0 /\ sessions[i].len % PAYLOAD_SIZE = 0
  /\ rh.eof
  /\ rh.out = plain

\* C8: reorder rejection. With two blocks of a single-stream ciphertext swapped,
\* a read from the start never reaches EOF without an error: it fails with
\* InvalidBlockCounter or KeyError, having delivered nothing from the first swapped
\* block on.
C8_SwapRejected ==
  tamper[1] = "swap" =>
    /\ ~CleanEof
    /\ rh.err \in {"none", "InvalidBlockCounter", "KeyError"}
    /\ Delivered <= tamper[2] * PAYLOAD_SIZE

\* C9 as stated: with any block k of a single-stream ciphertext, 0 <= k < n,
\* replaced by block 0 of an independent ciphertext, a read never reaches EOF
\* without an error.
C9_SpliceRejected == tamper[1] = "splice" => ~CleanEof

\* C9 amended: with a block k that is neither the first nor the last, 0 < k < n - 1,
\* replaced by block 0 of an independent ciphertext, a read never reaches EOF
\* without an error and delivers nothing beyond the replaced block.
C9_InnerSpliceRejected ==
  (tamper[1] = "splice" /\ 0 < tamper[2] /\ tamper[2] < NBlocks(source) - 1)
    => (~CleanEof /\ Delivered <= (tamper[2] + 1) * PAYLOAD_SIZE)

\* block 1 of three replaced; the reader fails at block 2
C9_Witness ==
  /\ tamper[1] = "splice"
  /\ tamper[2] = 1
  /\ NBlocks(source) = 3
  /\ rh.err = "InvalidBlockCounter"
  /\ rh.errout = 2 * PAYLOAD_SIZE

\* C10: seek. Over a single-stream ciphertext of plaintext B, as long as every
\* seek(Start(offset)) and every read of length bytes stays within the whole
\* blocks, offset + length <= |B| - (|B| mod 512), every call succeeds and the
\* bytes read since the last seek are B[offset .. offset + their number].
C10_Seek ==
  (r.st # "none" /\ rh.whole) =>
    /\ rh.err = "none"
    /\ ~rh.eof
    /\ rh.out = BSlice(plain, rh.base, rh.base + BLen(rh.out))

\* every writer so far wrote a whole number of blocks
WholeSessions == \A i \in 1..Len(sessions) : sessions[i].len % PAYLOAD_SIZE = 0

\* C11: self-synchronization without false rejection. Over the untouched
\* concatenation of the ciphertexts of several writers, a reader that seeks to any
\* block and reads on across the boundaries of the sub-streams never fails, and
\* the bytes read since the last seek are the plaintext at the positions addressed.
C11_SelfSync ==
  (RightReader /\ tamper = <<"none">> /\ cnt.seeks > 0
     /\ Len(sessions) >= 2 /\ \A i \in 1..Len(sessions) : sessions[i].len > 0)
    => /\ rh.err = "none"
       /\ r.st = "open"
       /\ WholeSessions => rh.out = BSlice(plain, rh.base, rh.base + BLen(rh.out))

\* C12: counter overflow. Over a sink that never fails, every write that emits a
\* block succeeds (the block of counter u32::MAX, the 2^32-th, included), a write
\* fails only when its block would need a counter beyond u32::MAX and then emits
\* nothing: each block follows its predecessor's counter by one, without a wrap.
C12_CounterOverflow ==
  /\ \A k \in 1..Len(handed) : handed[k].ok => handed[k].done
  /\ \A k \in 1..(Len(handed) - 1) :
       /\ ~IsU32Max(handed[k].counter)
       /\ handed[k + 1].counter = NextCounter(handed[k].counter)

\* C13: failed is terminal. Once a read of a reader has returned an error, no
\* later read of it delivers bytes: what it has delivered is what it had delivered
\* when the first error came, the block behind the rejected one never follows.
C13_FailedTerminal == rh.err # "none" => BLen(rh.out) = rh.errout

FlushedTogether(s, f) ==
  LET b == f \div PAYLOAD_SIZE
      mine == {k \in 1..Len(handed) : handed[k].salt = s.salt /\ handed[k].counter = b}
  IN  (f % PAYLOAD_SIZE # 0 /\ s.len >= (b + 1) * PAYLOAD_SIZE) =>
        /\ Cardinality(mine) = 1
        /\ \A k \in mine :
             AuthPlain(handed[k], <<s.pass, s.salt>>)
               = BSlice(plain, s.first + b * PAYLOAD_SIZE, s.first + (b + 1) * PAYLOAD_SIZE)

\* C16: flush only flushes the sink. A call of flush leaves the writer (buffer,
\* fill position, counter), the bytes of the sink and the blocks handed over as
\* they were, and bytes buffered before a flush go out in one block with the bytes
\* written after it.
C16_FlushFrame ==
  /\ [][wres'[1] = "flush" => (w' = w /\ sink' = sink /\ handed' = handed)]_vars
  /\ [](\A i \in 1..Len(sessions) : \A f \in sessions[i].flushed :
          /\ FlushedTogether(sessions[i], f)
          /\ Cardinality({k \in 1..Len(handed) : handed[k].salt = sessions[i].salt})
                <= CeilBlocks(sessions[i].len))

\* a flush with 5 bytes buffered, then the block was completed and handed over
C16_Witness ==
  /\ Len(sessions) = 1
  /\ 5 \in sessions[1].flushed
  /\ sessions[1].len >= PAYLOAD_SIZE
  /\ Len(handed) >= 1
  /\ AuthPlain(handed[1], w.key) = BTake(plain, PAYLOAD_SIZE)

\* the last call of the reader read a block, or left one it had accepted
AtBlock == r.st = "open" /\ r.inner_pos > 0 /\ rh.res \notin {"none", "eof"}

\* the header of the block the source handed over last
LastHeader == WireHeader(BlockAt(source, (r.inner_pos \div BLOCK_SIZE) - 1))

\* "#toc#stream_____", the magic table for the counters below 16
MagicTable16 ==
  <<35, 116, 111, 99, 35, 115, 116, 114, 101, 97, 109, 95, 95, 95, 95, 95>>

\* counter >= 16 or magic = table[counter], counter as the u32 it is
MagicPasses(h) ==
  \/ h.blockcounter < 0
  \/ h.blockcounter >= 16
  \/ h.magic = MagicTable16[h.blockcounter + 1]

BadVariant(h) == h.version # 0 \/ h.variant # 1

C19_RelativeSeek ==
  (RightReader /\ rh.seek[1] \in {"current", "end"}) =>
    /\ rh.base < 0 <=> rh.seek[2] = "InvalidInput"
    /\ (rh.base >= 0 /\ BLen(plain) % PAYLOAD_SIZE = 0) =>
         /\ rh.seek[2] = "ok"
         /\ rh.res \in {"ok", "eof"}
         /\ rh.out = BSlice(plain, rh.base, rh.base + BLen(rh.out))
         /\ rh.base < BLen(plain) => r.global_position = rh.base + BLen(rh.out)
         /\ rh.eof => rh.base + BLen(rh.out) >= BLen(plain)

\* seek(End(-512)) over two blocks, then a read of 512 bytes: the second block
C19_Witness ==
  /\ RightReader
  /\ rh.seek = <<"end", "ok">>
  /\ BLen(plain) = 2 * PAYLOAD_SIZE
  /\ rh.base = PAYLOAD_SIZE
  /\ rh.out = BSlice(plain, PAYLOAD_SIZE, 2 * PAYLOAD_SIZE)

\* the last seek was seek(Start(n)) to a block offset at or behind the end of the
\* source
SoughtToEnd ==
  /\ r.st = "open"
  /\ rh.seek = <<"start">>
  /\ (rh.base \div PAYLOAD_SIZE) * BLOCK_SIZE >= BLen(source)

\* C20: seek to or past the end. After seek(Start(n)) to a block offset where the
\* source has no bytes, the seek has succeeded, the reader has no current block,
\* and every read since has returned 0: nothing was delivered and no call failed.
C20_SeekToEnd ==
  SoughtToEnd =>
    /\ rh.res \in {"ok", "eof"}
    /\ rh.out = <<>>
    /\ r.current_chunk_position = PAYLOAD_SIZE
    /\ r.global_position = (rh.base \div PAYLOAD_SIZE) * PAYLOAD_SIZE

\* 300 bytes of a block read, then seek(Start(1536)) behind the end of a ciphertext
\* of one block or more, then a read that returned 0
C20_Witness ==
  /\ SoughtToEnd
  /\ rh.base = 3 * PAYLOAD_SIZE
  /\ BLen(source) >= BLOCK_SIZE
  /\ rh.res = "eof"
  /\ rh.eof

\* ---- a step of the reader, told from the states before and after it

\* the step is a call of seek
SeekStep == cnt'.seeks = cnt.seeks + 1

\* the offset of the source at which the step reads its block
FetchPos == IF SeekStep THEN (rh'.base \div PAYLOAD_SIZE) * BLOCK_SIZE ELSE r.inner_pos

\* the step, a seek or a read with no block current, read a whole block
Fetched ==
  /\ r.st = "open"
  /\ SeekStep \/ (cnt' = cnt /\ r.current_chunk_position = PAYLOAD_SIZE /\ r' # r)
  /\ BLen(source) >= FetchPos + BLOCK_SIZE

\* the header of that block: a set of one header, empty when no block was read
StepHeaders ==
  IF Fetched
    THEN {HeaderFromBytes(d) :
            d \in {BVals(blk, 0, HEADER_SIZE) :
                     blk \in {BSlice(source, FetchPos, FetchPos + BLOCK_SIZE)}}}
    ELSE {}

\* the same when the block passed the static checks and the step looked its salt up
Processed == {h \in StepHeaders : MagicPasses(h) /\ ~BadVariant(h)}

\* current_global_block of the step
StepBlock ==
  IF SeekStep THEN rh'.base \div PAYLOAD_SIZE ELSE r.global_position \div PAYLOAD_SIZE

\* C21: a seek and the ordering state. A call of seek(Start(n)) leaves every entry
\* of the sub-stream map as it was (key, first block, boundary), sets the boundary
\* of no sub-stream, an entry it inserts included, and leaves as the last salt the
\* salt of the block it decoded, or none: the salt seen before the seek is gone.
C21_SeekKeepsMap ==
  [][SeekStep =>
       /\ \A s \in DOMAIN r.stream_state :
            s \in DOMAIN r'.stream_state /\ r'.stream_state[s] = r.stream_state[s]
       /\ \A s \in DOMAIN r'.stream_state :
            s \notin DOMAIN r.stream_state => r'.stream_state[s].next_stream_block = None
       /\ \A h \in Processed : r'.last_stream = h.salt
       /\ Processed = {} => r'.last_stream = NoSalt]_vars

\* a block of the first writer read, then one seek, into the block of the second
\* writer: both sub-streams known, neither with a boundary
C21_Witness ==
  /\ tamper = <<"none">>
  /\ cnt.seeks = 1
  /\ rh.seek = <<"start">>
  /\ rh.res = "ok"
  /\ rh.out = <<>>
  /\ r.last_stream = SaltOf(2)
  /\ DOMAIN r.stream_state = {SaltOf(1), SaltOf(2)}
  /\ \A s \in DOMAIN r.stream_state : r.stream_state[s].next_stream_block = None

\* the salt seen last when the step looks a salt up: a seek has cleared it
StepLast == IF SeekStep THEN NoSalt ELSE r.last_stream

\* C28: cross-stream transition marking. When a step processes a block whose salt
\* differs from the last salt seen, the sub-stream of that salt gets the current
\* global block index as its boundary and no other boundary changes; when the
\* salts are equal or no salt was seen last, no boundary changes.
C28_TransitionMarking ==
  [][\A h \in Processed :
       IF StepLast # NoSalt /\ StepLast # h.salt
         THEN /\ StepLast \in DOMAIN r'.stream_state
              /\ r'.stream_state[StepLast].next_stream_block = StepBlock
              /\ \A s \in DOMAIN r.stream_state \ {StepLast} :
                   r'.stream_state[s].next_stream_block
                     = r.stream_state[s].next_stream_block
         ELSE \A s \in DOMAIN r.stream_state :
                r'.stream_state[s].next_stream_block
                  = r.stream_state[s].next_stream_block]_vars

\* current_global_block - header.blockcounter is negative (a counter of 2^31 or
\* more is beyond every block index)
BeforeStart(h) == h.blockcounter < 0 \/ StepBlock - h.blockcounter < 0

\* C29: new sub-stream admission. When a step processes a block whose salt is not
\* in the map: if current_global_block - blockcounter is negative the call fails
\* with InvalidBlockCounter and the map gets no entry for the salt; otherwise the
\* map gets an entry with that difference as first block and no boundary.
C29_Admission ==
  [][\A h \in Processed :
       h.salt \notin DOMAIN r.stream_state =>
         IF BeforeStart(h)
           THEN /\ rh'.res = "InvalidBlockCounter"
                /\ h.salt \notin DOMAIN r'.stream_state
           ELSE /\ h.salt \in DOMAIN r'.stream_state
                /\ r'.stream_state[h.salt].first_stream_chunk = StepBlock - h.blockcounter
                /\ r'.stream_state[h.salt].next_stream_block = None]_vars

\* the entry e of a sub-stream is retired at the block of the step
Retired(e) == e.next_stream_block # None /\ e.next_stream_block <= StepBlock

\* C26: retired sub-stream lookup. When a step processes a block whose salt is in
\* the map: if the entry has a boundary at or before the current global block the
\* call fails with InvalidBlockCounter, whatever the counter; otherwise the block
\* is accepted only if current block = first block + counter.
C26_RetiredLookup ==
  [][\A h \in Processed :
       h.salt \in DOMAIN r.stream_state =>
         IF Retired(r.stream_state[h.salt])
           THEN rh'.res = "InvalidBlockCounter"
           ELSE rh'.res = "ok" =>
                  /\ h.blockcounter >= 0
                  /\ StepBlock = r.stream_state[h.salt].first_stream_chunk + h.blockcounter]_vars

\* C25: position relation. The first block of a sub-stream is fixed when its salt
\* is inserted: no step changes it or removes the entry. Every block a step accepts
\* has current global block = first block of its salt + its counter, and a block of
\* a known salt that breaks this relation is rejected with InvalidBlockCounter.
C25_PositionRelation ==
  [][/\ \A s \in DOMAIN r.stream_state :
          /\ s \in DOMAIN r'.stream_state
          /\ r'.stream_state[s].first_stream_chunk = r.stream_state[s].first_stream_chunk
     /\ \A h \in Processed :
          /\ rh'.res = "ok" =>
               /\ h.salt \in DOMAIN r'.stream_state
               /\ StepBlock = r'.stream_state[h.salt].first_stream_chunk + h.blockcounter
          /\ (/\ h.salt \in DOMAIN r.stream_state
              /\ StepBlock # r.stream_state[h.salt].first_stream_chunk + h.blockcounter)
               => rh'.res = "InvalidBlockCounter"]_vars

\* C27 as stated: a block whose salt has an entry with a boundary, met at a global
\* block index before that boundary, is rejected.
C27_EarlierRejected ==
  [][\A h \in Processed :
       (/\ h.salt \in DOMAIN r.stream_state
        /\ r.stream_state[h.salt].next_stream_block # None
        /\ StepBlock < r.stream_state[h.salt].next_stream_block)
         => rh'.res # "ok"]_vars

\* C27 amended: a block whose salt has an entry with a boundary is never accepted
\* at a global block index at or behind that boundary; at an index before it the
\* block is not rejected with InvalidBlockCounter when its counter fits its index.
C27_LaterRejected ==
  [][\A h \in Processed :
       (h.salt \in DOMAIN r.stream_state
          /\ r.stream_state[h.salt].next_stream_block # None)
         => IF StepBlock >= r.stream_state[h.salt].next_stream_block
              THEN rh'.res # "ok"
              ELSE StepBlock = r.stream_state[h.salt].first_stream_chunk + h.blockcounter
                     => rh'.res # "InvalidBlockCounter"]_vars

\* the blocks A0, B0, A0: the third is met at block 2, behind the boundary 1 of its
\* sub-stream, and rejected after 1024 bytes
C27_Witness ==
  /\ tamper = <<"arrange", <<0, 1, 0>>>>
  /\ r.st = "open"
  /\ SaltOf(1) \in DOMAIN r.stream_state
  /\ r.stream_state[SaltOf(1)].next_stream_block = 1
  /\ rh.res = "InvalidBlockCounter"
  /\ BLen(rh.out) = 2 * PAYLOAD_SIZE

\* C23: salt freshness. The ciphertext of one writer over a plaintext of up to a
\* block, and the ciphertext a second writer with the same passphrase and a salt of
\* its own makes of the same plaintext, differ within their 16 header bytes and in
\* their encrypted payload.
C23_SaltFreshness ==
  (w.st = "dropped" /\ Len(sessions) = 1 /\ BLen(sink) = BLOCK_SIZE) =>
    \A other \in {EncryptOne(BLen(plain), WriterPassphrase, ForeignSalt)} :
      /\ BTake(sink, HEADER_SIZE) # BTake(other, HEADER_SIZE)
      /\ BSlice(sink, HEADER_SIZE, HEADER_SIZE + PAYLOAD_SIZE)
           # BSlice(other, HEADER_SIZE, HEADER_SIZE + PAYLOAD_SIZE)

\* bit p (a power of two) of a XOR b for two u32, in place
BitXor(a, b, p) == p * ((((a \div p) % 2) + ((b \div p) % 2)) % 2)

\* a XOR b for two u32, bit by bit: the 31 low bits, and the top bit, which is set
\* in a u32 kept below 0
Xor32(a, b) ==
  BitXor(a, b, 1) + BitXor(a, b, 2) + BitXor(a, b, 4) + BitXor(a, b, 8)
    + BitXor(a, b, 16) + BitXor(a, b, 32) + BitXor(a, b, 64) + BitXor(a, b, 128)
    + BitXor(a, b, 256) + BitXor(a, b, 512) + BitXor(a, b, 1024) + BitXor(a, b, 2048)
    + BitXor(a, b, 4096) + BitXor(a, b, 8192) + BitXor(a, b, 16384)
    + BitXor(a, b, 32768) + BitXor(a, b, 65536) + BitXor(a, b, 131072)
    + BitXor(a, b, 262144) + BitXor(a, b, 524288) + BitXor(a, b, 1048576)
    + BitXor(a, b, 2097152) + BitXor(a, b, 4194304) + BitXor(a, b, 8388608)
    + BitXor(a, b, 16777216) + BitXor(a, b, 33554432) + BitXor(a, b, 67108864)
    + BitXor(a, b, 134217728) + BitXor(a, b, 268435456) + BitXor(a, b, 536870912)
    + BitXor(a, b, 1073741824)
    + (IF (a < 0) # (b < 0) THEN -2147483647 - 1 ELSE 0)

\* 0x35343462, COUNTER_HINT as a number
CounterHint32 == 892613730

\* C30: header round trip. Parsing the 16 bytes a header of version 0, variant 1,
\* any counter and any salt serializes to gives back version, variant, counter and
\* salt, and the bytes 2..5 are the counter XOR 0x35343462 in big-endian order.
C30_HeaderRoundTrip ==
  hd.st = "parsed" =>
    /\ Len(hd.bytes) = HEADER_SIZE
    /\ hd.parsed.version = 0
    /\ hd.parsed.variant = 1
    /\ hd.parsed.blockcounter = hd.h.blockcounter
    /\ hd.parsed.salt = hd.h.salt
    /\ \A c \in {Xor32(hd.h.blockcounter, CounterHint32)} :
         /\ SubSeq(hd.bytes, 3, 6)
              = <<(c \div 16777216) % 256, (c \div 65536) % 256, (c \div 256) % 256, c % 256>>
         /\ Xor32(c, CounterHint32) = hd.h.blockcounter

\* the header of counter u32::MAX: ca cb cb 9d on the wire, u32::MAX again parsed
C30_Witness ==
  /\ hd.st = "parsed"
  /\ hd.h.blockcounter = -1
  /\ SubSeq(hd.bytes, 3, 6) = <<202, 203, 203, 157>>
  /\ hd.parsed.blockcounter = -1
  /\ hd.parsed.salt = SaltOf(1)

\* C22: pipe backpressure. The channel never holds more than 64 chunks; a write
\* called while 64 chunks are queued and the PipeReader lives blocks and queues
\* nothing; a blocked write returns only with an error after the PipeReader was
\* dropped, or with Ok after a chunk was consumed, its own chunk then queued; and
\* with a consumer that keeps reading every blocked write returns.
C22_Backpressure ==
  /\ [](pipe.st = "open" => Len(pipe.queue) <= 64)
  /\ [][(pipe.st = "open" /\ pipe'.calls = pipe.calls + 1
           /\ Len(pipe.queue) = 64 /\ pipe.rx # "dropped")
         => (pipe'.tx = "sending" /\ pipe'.queue = pipe.queue
               /\ pipe'.written = pipe.written /\ pipe'.wret = pipe.wret)]_vars
  /\ [][(pipe.st = "open" /\ pipe.tx = "sending" /\ pipe'.tx # "sending")
         => \/ pipe.rx = "dropped" /\ pipe'.wret = "send error"
                 /\ pipe'.written = pipe.written
            \/ pipe.rx # "dropped" /\ Len(pipe.queue) < 64 /\ pipe'.wret = "ok"
                 /\ pipe'.queue = Append(pipe.queue, pipe.pending)
                 /\ pipe'.written = pipe.written + Len(pipe.pending)]_vars
  /\ [][(pipe.st = "open" /\ pipe.tx = "sending" /\ Len(pipe.queue) = 64
           /\ pipe.rx # "dropped" /\ pipe'.rx # "dropped"
           /\ Len(pipe'.queue) = 64)
         => pipe'.tx = "sending"]_vars
  /\ (pipe.st = "open" /\ pipe.tx = "sending") ~> (pipe.st = "open" /\ pipe.tx = "idle")

\* the 65th write found 64 chunks queued, blocked, and returned Ok after the
\* consumer took one chunk: 64 chunks are queued again
C22_Witness ==
  /\ pipe.st = "open"
  /\ pipe.calls = 65
  /\ pipe.stalls = 1
  /\ pipe.tx = "idle"
  /\ pipe.wret = "ok"
  /\ Len(pipe.queue) = 64
  /\ pipe.rx # "dropped"

\* C24: passphrase code round trip. Parsing the text of a TarPassword gives its
\* prefix and its four word indices back, and a text with fewer or more than four
\* '-'-separated words after the number is not parsed.
C24_PasswordRoundTrip ==
  pw.st = "parsed" =>
    /\ pw.edits = <<>> =>
         /\ pw.parsed.ok
         /\ pw.parsed.prefix = pw.p.prefix
         /\ pw.parsed.words = pw.p.words
    /\ Cardinality({i \in 1..Len(pw.text) : pw.text[i] = 45}) # 4 => ~pw.parsed.ok

\* 9999-abstract-able-absent-abandon is parsed to 9999 and (7, 2, 5, 0)
C24_Witness ==
  /\ pw.st = "parsed"
  /\ pw.edits = <<>>
  /\ pw.p = [prefix |-> 9999, words |-> <<7, 2, 5, 0>>]
  /\ Len(pw.text) = 33
  /\ pw.parsed = [ok |-> TRUE, prefix |-> 9999, words |-> <<7, 2, 5, 0>>]

\* the reader as get_state finds it in this step
StepReader == [r EXCEPT !.global_position = StepBlock * PAYLOAD_SIZE, !.last_stream = StepLast]

C32_EncryptOnce ==
  \A k \in 1..Len(handed) :
    \A p \in {AuthPlain(handed[k], generate_key(WriterPassphrase, MkHeader(0, handed[k].salt)))} :
      \A i \in 1..Len(p) : p[i][4] = {}

\* the step is a read that copies from the block that was current before it
Kept ==
  /\ ~SeekStep
  /\ cnt' = cnt
  /\ r.current_chunk_position < PAYLOAD_SIZE
  /\ r'.current_chunk = r.current_chunk

\* the step read a block that passed the static checks, the ordering check and the
\* tag verification, and holds its payload decrypted
Fresh ==
  /\ Fetched
  /\ \A h \in StepHeaders :
       /\ HeaderCheck(h) = "ok"
       /\ \A g \in {get_state(StepReader, h)} :
            /\ g.res = "ok"
            /\ \A blk \in {BSlice(source, FetchPos, FetchPos + BLOCK_SIZE)} :
                 /\ TagOk(g.key, payload_nonce(h),
                          BSlice(blk, HEADER_SIZE, HEADER_SIZE + PAYLOAD_SIZE),
                          BDrop(blk, HEADER_SIZE + PAYLOAD_SIZE))
                 /\ BSlice(r'.current_chunk, HEADER_SIZE, HEADER_SIZE + PAYLOAD_SIZE)
                      = ApplyKeyStream(g.key, payload_nonce(h),
                                       BSlice(blk, HEADER_SIZE, HEADER_SIZE + PAYLOAD_SIZE))

\* C33: authenticate before release. A reader has bytes of its chunk on offer (its
\* cursor is inside the payload) only when the chunk is the one it had on offer
\* before, or a block that passed header checks, ordering check and tag
\* verification in this step; a step that reads no such block (an error, EOF)
\* leaves nothing on offer; and the bytes a read returns are bytes of such a
\* chunk, taken from the cursor on.
C33_AuthBeforeRelease ==
  [][(r.st = "open" /\ r'.st = "open") =>
       /\ r'.current_chunk_position < PAYLOAD_SIZE => (Kept \/ Fresh)
       /\ BLen(rh'.out) > BLen(rh.out) =>
            /\ Kept \/ Fresh
            /\ rh'.res = "ok"
            /\ \A n \in {BLen(rh'.out) - BLen(rh.out)} :
                 /\ r'.current_chunk_position - n
                      = (IF Fetched THEN 0 ELSE r.current_chunk_position)
                 /\ BDrop(rh'.out, BLen(rh.out))
                      = BSlice(r'.current_chunk,
                               HEADER_SIZE + r'.current_chunk_position - n,
                               HEADER_SIZE + r'.current_chunk_position)]_vars

\* a seek put block 0 on offer, the next seek met a block out of order: the reader
\* has failed with InvalidBlockCounter and has no byte on offer
C33_Witness ==
  /\ tamper = <<"arrange", <<0, 0>>>>
  /\ cnt.seeks = 2
  /\ rh.base = 512
  /\ rh.res = "InvalidBlockCounter"
  /\ rh.out = <<>>
  /\ r.st = "open"
  /\ r.current_chunk_position = PAYLOAD_SIZE

\* the step processed a block and ended in InvalidBlockCounter or KeyError
Rejected == Processed # {} /\ rh'.res \in {"InvalidBlockCounter", "KeyError"}

\* C34 as stated: rejected blocks leave the ordering state untouched. When the
\* processing of a block ends in InvalidBlockCounter or KeyError, the sub-stream
\* map and the last salt are as before the block was read.
C34_RejectedUntouched ==
  [][Rejected => (r'.stream_state = r.stream_state /\ r'.last_stream = StepLast)]_vars

\* C34 amended: when the processing of a block ends in InvalidBlockCounter or
\* KeyError, every entry the map had is still there with its key and its first
\* block; a boundary changes only in the entry of the last salt, when that differs
\* from the block's, and becomes the current block; the last salt is the block's;
\* and an entry is new only after KeyError, under the block's salt, from the
\* current block less the counter on, with no boundary.
C34_RejectedFrame ==
  [][Rejected =>
       \A h \in Processed : \A salt \in {StreamKey(r, h.salt)} :
         /\ r'.last_stream = salt
         /\ \A s \in DOMAIN r.stream_state :
              /\ s \in DOMAIN r'.stream_state
              /\ r'.stream_state[s].key = r.stream_state[s].key
              /\ r'.stream_state[s].first_stream_chunk = r.stream_state[s].first_stream_chunk
              /\ r'.stream_state[s].next_stream_block # r.stream_state[s].next_stream_block
                   => (s = StepLast /\ s # salt
                        /\ r'.stream_state[s].next_stream_block = StepBlock)
         /\ \A s \in DOMAIN r'.stream_state \ DOMAIN r.stream_state :
              /\ s = salt
              /\ rh'.res = "KeyError"
              /\ r'.stream_state[s].first_stream_chunk = StepBlock - h.blockcounter
              /\ r'.stream_state[s].next_stream_block = None]_vars

\* block 0 of the first writer, then block 2 of the second in the place of its block
\* 0: rejected with InvalidBlockCounter, it is the last salt, has no entry, and has
\* retired the first sub-stream at block 1
C34_Witness ==
  /\ tamper = <<"arrange", <<0, 3>>>>
  /\ Len(sessions) = 2
  /\ sessions[1].len = 512
  /\ rh.res = "InvalidBlockCounter"
  /\ BLen(rh.out) = 512
  /\ r.stream_key_len = 10
  /\ r.last_stream = TwinSalt(2)
  /\ DOMAIN r.stream_state = {TwinSalt(1)}
  /\ r.stream_state[TwinSalt(1)].next_stream_block = 1

\* the step, in a reader that has never sought, accepted a block of a salt that
\* was not in the map
NewAccepted(h) ==
  /\ cnt.seeks = 0
  /\ ~SeekStep
  /\ h.salt \notin DOMAIN r.stream_state
  /\ rh'.res = "ok"

\* C35 as stated: head-truncation detection in sequential reads. A reader that
\* reads from offset 0 and never seeks accepts a block of a not-yet-seen salt only
\* when its blockcounter is 0.
C35_NewSaltCounterZero ==
  [][\A h \in Processed : NewAccepted(h) => h.blockcounter = 0]_vars

\* C35 amended: such a reader accepts a block of a not-yet-seen salt only when its
\* blockcounter is at most the global block index it is read at, the sub-stream
\* then starting at their difference; a block of a not-yet-seen salt whose counter
\* exceeds that index is not accepted, gets no entry and delivers nothing.
C35_NewSaltWithinStart ==
  [][\A h \in Processed :
       /\ NewAccepted(h) =>
            /\ 0 <= h.blockcounter
            /\ h.blockcounter <= StepBlock
            /\ r'.stream_state[h.salt].first_stream_chunk = StepBlock - h.blockcounter
       /\ (cnt.seeks = 0 /\ ~SeekStep /\ h.salt \notin DOMAIN r.stream_state
             /\ h.blockcounter > StepBlock) =>
            /\ rh'.res # "ok"
            /\ h.salt \notin DOMAIN r'.stream_state
            /\ rh'.out = rh.out]_vars

\* block 0 of the first writer, then block 1 of the second, whose block 0 was
\* removed: both are accepted, the second sub-stream from block 0 on
C35_Witness ==
  /\ tamper = <<"arrange", <<0, 2>>>>
  /\ Len(sessions) = 2
  /\ sessions[1].len = 512
  /\ cnt.seeks = 0
  /\ rh.err = "none"
  /\ rh.res = "ok"
  /\ BLen(rh.out) = 1024
  /\ SaltOf(2) \in DOMAIN r.stream_state
  /\ r.stream_state[SaltOf(2)].first_stream_chunk = 0
  /\ r.stream_state[SaltOf(1)].next_stream_block = 1

\* C36: a seek that fails with InvalidInput changes nothing. After a call of
\* seek(Current(d)) or seek(End(d)) that returned InvalidInput the reader is as it
\* was: source position, global position, cursor, chunk, last salt and map.
C36_FailedSeekFrame ==
  [][(SeekStep /\ Len(rh'.seek) = 2 /\ rh'.seek[2] = "InvalidInput") => r' = r]_vars

\* the bytes of the chunks of a channel, in the order the chunks were queued
RECURSIVE Flat(_)
Flat(q) == IF q = <<>> THEN <<>> ELSE Head(q) \o Flat(Tail(q))

\* the bytes handed to write after the first a and up to the b-th, in write order
Accepted(a, b) == [i \in 1..(b - a) |-> a + i]

\* C37: pipe delivery order. Whatever the interleaving of the two threads, written
\* is the number of bytes the write calls accepted, the bytes a read returns are
\* the next bytes accepted, in write order, and the bytes accepted and not yet
\* returned are those held by the PipeReader and the channel, in write order:
\* no byte is lost, repeated or out of place.
C37_DeliveryOrder ==
  /\ [](pipe.st = "open" => pipe.written = pipe.acc)
  /\ []((pipe.st = "open" /\ pipe.rx # "dropped")
         => pipe.buffer \o Flat(pipe.queue) = Accepted(pipe.got, pipe.acc))
  /\ [][(pipe.st = "open" /\ pipe'.st = "open" /\ pipe'.got # pipe.got)
         => (pipe'.rbuf = Accepted(pipe.got, pipe'.got)
               /\ Len(pipe'.rbuf) = pipe'.rret)]_vars

\* three writes of 0, 1 and 2 bytes, the PipeWriter dropped, and reads into a
\* buffer of one byte have returned the three bytes one by one
C37_Witness ==
  /\ pipe.st = "open"
  /\ pipe.tx = "dropped"
  /\ pipe.rx = "idle"
  /\ pipe.written = 3
  /\ pipe.got = 3
  /\ pipe.rbuf = <<3>>
  /\ pipe.queue = <<>>
  /\ pipe.buffer = <<>>

\* C38: pipe end of stream. A read into a non-empty buffer, whether it returned
\* at once with a chunk taken from the channel or after waiting in recv, returns
\* 0 only if the PipeWriter was dropped and nothing was left in the channel or
\* in the PipeReader.
C38_EofOnlyAfterDrop ==
  [][(pipe.st = "open" /\ pipe'.st = "open" /\ pipe'.rx = "idle"
        /\ (pipe.rx = "receiving" \/ Len(pipe'.queue) < Len(pipe.queue))
        /\ pipe'.rret = 0)
      => (pipe.tx = "dropped" /\ pipe.queue = <<>> /\ pipe.buffer = <<>>)]_vars

\* C39: the download of an unfinished upload is complete. When
\* UnfinishedBlockingFileReader has reported the end of the stream, and not
\* because its 60 iterations were used up, it has returned every byte of the
\* data file it reads, which by then holds all the upload wrote before it
\* marked the upload finished.
C39_DownloadComplete ==
  (srv.dl.pc = "done" /\ srv.dl.blocking /\ srv.dl.end = "eof")
    => srv.dl.out = srv.inodes[srv.dl.fd]

\* the positions of an upload request that has created the data file and has
\* not removed it
Holding == {"copy", "finish", "cleanup", "ok"}

\* C40: a raw upload never overwrites. Of two upload requests for one id at
\* most one creates and writes the data file and the meta file: never have both
\* passed the test for "Already exists" and created the data file, the second
\* truncating what the first had stored.
C40_NoOverwrite ==
  \A u \in Uploaders : \A v \in Uploaders \ {u} :
    ~(srv.up[u].pc \in Holding /\ srv.up[v].pc \in Holding)

====
